---------------------------- MODULE Spec2Model ----------------------------
(***************************************************************************)
(* A model of the strategy-execution and position-reconciliation core of   *)
(* the trading controller: the OrderManager ledger and trade journal       *)
(* (trading_core/execution.py), the shared sizing helper of the strategy   *)
(* base class (trading_core/strategies/base_strategy.py), two concrete     *)
(* strategies (sma_crossover.py, opening_breakout.py) and the live tick    *)
(* dispatcher (trading_core/data_handler.py).                              *)
(*                                                                         *)
(* Money is fixed-point: a price is an integer number of thousandths of a  *)
(* currency unit, one decimal more than the journal keeps, so that the     *)
(* rounding of the journal's pnl is an operation of the model.             *)
(* Python's None is the empty sequence and a present value v is <<v>>.     *)
(***************************************************************************)
EXTENDS Integers, Sequences, FiniteSets, TLC

VARIABLES
    positions,      \* OrderManager.positions: symbol -> position (a dict)
    posFile,        \* the content of positions.json
    histFile,       \* the content of trade_history.json (a list of records)
    clock,          \* the wall clock read by datetime.now()
    calls,          \* number of place_order calls made so far
    netQty,         \* per symbol, the signed sum of qty*side over the calls made
    lastCall,       \* the arguments and i/o outcomes of the latest call
    sizing,         \* sizing_type and sizing_value of the strategy instances
    sized,          \* the latest _calculate_quantity call: its price and result
    sma,            \* the SMACrossoverStrategy instance
    ob,             \* the OpeningBreakoutStrategy instance
    lastTick,       \* what the latest on_tick invocation saw and did
    placed,         \* the orders the strategies placed, in call order
    queue,          \* ticks submitted to the executor and not yet taken
    ticks,          \* number of ticks fed so far (on_message, or on_tick in replay)
    wk,             \* the tick workers: program counter and locals
    session,        \* the OrderManager instances constructed so far, and the last load
    inst,           \* the instances of the other strategy classes, by STRATEGY_NAME
    dh,             \* the LiveDataHandler's executor: shutdown state, deliveries, refusals
    replay,         \* run_backtest replays: the series fed and the journal of the first run
    eng             \* the TradingEngine: its attributes and the calls running on it

ledgerVars == <<positions, posFile, histFile>>
callVars   == <<calls, netQty, lastCall>>
sizingVars == <<sizing, sized>>
stratVars  == <<sma, ob, lastTick, placed>>
liveVars   == <<queue, ticks, wk>>
moreVars   == <<session, inst, dh, replay, eng>>
vars       == <<positions, posFile, histFile, clock, calls, netQty, lastCall,
                sizing, sized, sma, ob, lastTick, placed, queue, ticks, wk,
                session, inst, dh, replay, eng>>

----------------------------------------------------------------------------
(* Values *)

None == <<>>
Some(v) == <<v>>
\* Python truthiness of an optional number: None and 0 are falsy
TruthyNum(o) == o # None /\ o[1] # 0
\* Python truthiness of an optional string: None and "" are falsy
TruthyStr(o) == o # None /\ o[1] # ""

Symbols == {"NSE:SBIN-EQ", "NSE:TCS-EQ"}

\* round(pnl, 2) keeps two decimals; the model's prices carry one more
PnlDecimals == 2
ModelDecimals == PnlDecimals + 1
RECURSIVE Pow10(_)
Pow10(n) == IF n = 0 THEN 1 ELSE 10 * Pow10(n - 1)
\* one hundredth of a currency unit, and one currency unit, in price units
Cent == Pow10(ModelDecimals - PnlDecimals)
PriceScale == Pow10(ModelDecimals)

BUY == 1
SELL == -1
Sides == {BUY, SELL}

SMA_NAME == "SMA Crossover"
OB_NAME == "Opening Breakout"

IoOk == [histRead |-> "ok", histWrite |-> "ok", posWrite |-> "ok"]
IoOutcomes == [histRead : {"ok", "fail"}, histWrite : {"ok", "fail"},
               posWrite : {"ok", "fail"}]

----------------------------------------------------------------------------
(* OrderManager: reads *)

get_open_position(pos, symbol) ==
    IF symbol \in DOMAIN pos THEN Some(pos[symbol]) ELSE None

get_position(pos, symbol) ==
    LET position == get_open_position(pos, symbol)
    IN  IF position # None THEN position[1].quantity ELSE 0

----------------------------------------------------------------------------
(* OrderManager.place_order: the pure parts *)

\* the nearest multiples of a cent; a tie is decided by the binary
\* representation of the float, so both neighbours are possible
round2(x) ==
    LET lo == (x \div Cent) * Cent
        r  == x - lo
    IN  IF 2 * r < Cent THEN {lo}
        ELSE IF 2 * r > Cent THEN {lo + Cent}
        ELSE {lo, lo + Cent}

\* a slip that takes the long formula for both sides
calc_pnl_long_only(side, qty, entry_price, exit_reason, price) ==
    IF TruthyStr(exit_reason) /\ TruthyNum(entry_price) /\ TruthyNum(price)
    THEN (price[1] - entry_price[1]) * qty
    ELSE 0

calc_pnl(side, qty, entry_price, exit_reason, price) ==
    IF TruthyStr(exit_reason) /\ TruthyNum(entry_price) /\ TruthyNum(price)
    THEN IF side = -1 THEN (price[1] - entry_price[1]) * qty
         ELSE IF side = 1 THEN (entry_price[1] - price[1]) * qty
         ELSE 0
    ELSE 0

\* a slip that journals every order as a purchase
trade_record_always_buy(symbol, qty, side, strategy_name, exit_reason, price, timestamp, pnl) ==
    [timestamp |-> IF timestamp # None THEN timestamp[1] ELSE clock,
     symbol    |-> symbol,
     strategy  |-> IF TruthyStr(strategy_name) THEN strategy_name[1] ELSE "N/A",
     action    |-> "BUY",
     price     |-> price,
     quantity  |-> qty,
     pnl       |-> pnl,
     reason    |-> IF TruthyStr(exit_reason) THEN exit_reason[1] ELSE "Entry"]

\* a slip that stamps the record with the time of the call
trade_record_stamped_now(symbol, qty, side, strategy_name, exit_reason, price, timestamp, pnl) ==
    [timestamp |-> clock,
     symbol    |-> symbol,
     strategy  |-> IF TruthyStr(strategy_name) THEN strategy_name[1] ELSE "N/A",
     action    |-> IF side = 1 THEN "BUY" ELSE "SELL",
     price     |-> price,
     quantity  |-> qty,
     pnl       |-> pnl,
     reason    |-> IF TruthyStr(exit_reason) THEN exit_reason[1] ELSE "Entry"]

trade_record(symbol, qty, side, strategy_name, exit_reason, price, timestamp, pnl) ==
    [timestamp |-> IF timestamp # None THEN timestamp[1] ELSE clock,
     symbol    |-> symbol,
     strategy  |-> IF TruthyStr(strategy_name) THEN strategy_name[1] ELSE "N/A",
     action    |-> IF side = 1 THEN "BUY" ELSE "SELL",
     price     |-> price,
     quantity  |-> qty,
     pnl       |-> pnl,
     reason    |-> IF TruthyStr(exit_reason) THEN exit_reason[1] ELSE "Entry"]

\* _log_trade: read the whole history, append, write the whole history
log_trade_read(file, io) ==
    IF io.histRead = "ok" THEN file ELSE <<>>

log_trade_write(file, history, trade_details, io) ==
    IF io.histWrite = "ok" THEN Append(history, trade_details) ELSE file

log_trade(file, trade_details, io) ==
    log_trade_write(file, log_trade_read(file, io), trade_details, io)

\* a slip that swallows a failed write of positions.json without a log line
logged_history_only(io) ==
    (IF io.histRead = "ok" THEN {} ELSE {"Could not read trade history file"})
        \cup (IF io.histWrite = "ok" THEN {} ELSE {"Error saving trade history"})

\* the error lines _log_trade and _save_positions pass to _log in one call
logged(io) ==
    (IF io.histRead = "ok" THEN {} ELSE {"Could not read trade history file"})
        \cup (IF io.histWrite = "ok" THEN {} ELSE {"Error saving trade history"})
        \cup (IF io.posWrite = "ok" THEN {} ELSE {"Error saving positions"})

\* a slip that zeroes a closed position instead of deleting its entry
update_position_zeroed(pos, current_position_details, current_qty, symbol, qty, side, strategy_name, price) ==
    LET new_qty == current_qty + (qty * side)
    IN  IF current_position_details = None
        THEN [s \in DOMAIN pos \cup {symbol} |->
                IF s = symbol
                THEN [quantity |-> new_qty, strategy |-> strategy_name,
                      entry_price |-> price]
                ELSE pos[s]]
        ELSE [pos EXCEPT ![symbol].quantity = new_qty]

\* a slip that hands the position to the strategy of the latest order
update_position_restamped(pos, current_position_details, current_qty, symbol, qty, side, strategy_name, price) ==
    LET new_qty == current_qty + (qty * side)
    IN  IF new_qty = 0
        THEN [s \in DOMAIN pos \ {symbol} |-> pos[s]]
        ELSE IF current_position_details = None
             THEN [s \in DOMAIN pos \cup {symbol} |->
                     IF s = symbol
                     THEN [quantity |-> new_qty, strategy |-> strategy_name,
                           entry_price |-> price]
                     ELSE pos[s]]
             ELSE [pos EXCEPT ![symbol].quantity = new_qty,
                              ![symbol].strategy = strategy_name]

\* a slip that re-bases the cost on every adjustment
update_position_rebased(pos, current_position_details, current_qty, symbol, qty, side, strategy_name, price) ==
    LET new_qty == current_qty + (qty * side)
    IN  IF new_qty = 0
        THEN [s \in DOMAIN pos \ {symbol} |-> pos[s]]
        ELSE [s \in DOMAIN pos \cup {symbol} |->
                IF s = symbol
                THEN [quantity |-> new_qty, strategy |-> strategy_name,
                      entry_price |-> price]
                ELSE pos[s]]

\* the ledger after lines 120-134, given what lines 120-121 read
update_position(pos, current_position_details, current_qty, symbol, qty, side, strategy_name, price) ==
    LET new_qty == current_qty + (qty * side)
    IN  IF new_qty = 0
        THEN [s \in DOMAIN pos \ {symbol} |-> pos[s]]
        ELSE IF current_position_details = None
             THEN [s \in DOMAIN pos \cup {symbol} |->
                     IF s = symbol
                     THEN [quantity |-> new_qty, strategy |-> strategy_name,
                           entry_price |-> price]
                     ELSE pos[s]]
             ELSE IF symbol \in DOMAIN pos
                  THEN [pos EXCEPT ![symbol].quantity = new_qty]
                  ELSE pos  \* KeyError: the entry was deleted in between

positions_after(pos, symbol, qty, side, strategy_name, price) ==
    update_position(pos, get_open_position(pos, symbol), get_position(pos, symbol),
                    symbol, qty, side, strategy_name, price)

\* a slip that updates the stored entries and never drops a closed one
save_positions_merged(file, pos, io) ==
    IF io.posWrite = "ok"
    THEN [s \in DOMAIN file \cup DOMAIN pos |->
            IF s \in DOMAIN pos THEN pos[s] ELSE file[s]]
    ELSE file

\* _save_positions: the file is overwritten with the whole ledger
save_positions(file, pos, io) ==
    IF io.posWrite = "ok" THEN pos ELSE file


----------------------------------------------------------------------------
(* Strategy._calculate_quantity; sizing_value is in whole currency units *)

SizingTypes == {"Quantity", "Amount", "Percentage"}

\* a slip that drops the guard on the price
calculate_quantity_unguarded(cfg, price) ==
    IF cfg.sizing_type = "Quantity" THEN cfg.sizing_value
    ELSE IF cfg.sizing_type = "Amount" /\ price > 0
         THEN (cfg.sizing_value * PriceScale) \div price
         ELSE 0

calculate_quantity(cfg, price) ==
    IF price <= 0 THEN 0
    ELSE IF cfg.sizing_type = "Quantity" THEN cfg.sizing_value
    ELSE IF cfg.sizing_type = "Amount"
         THEN IF cfg.sizing_value * PriceScale < price
              THEN 0
              ELSE (cfg.sizing_value * PriceScale) \div price
         ELSE 0

----------------------------------------------------------------------------
(* Timestamps are minutes; a day has 24 * 60 of them *)

DayMinutes == 24 * 60
date(ts) == ts \div DayMinutes
time(ts) == ts % DayMinutes
At(day, hour, minute) == day * DayMinutes + hour * 60 + minute

\* data.get('ltp', data.get('close')) on a tick mapping
tick_price(data) == IF data.ltp # None THEN data.ltp ELSE data.close

\* abs()
Abs(x) == IF x < 0 THEN -x ELSE x

RECURSIVE Sum(_)
Sum(seq) == IF seq = <<>> THEN 0 ELSE seq[1] + Sum(Tail(seq))

\* a slip that slices the window off the front of the list
FirstN(seq, n) == SubSeq(seq, 1, IF n < Len(seq) THEN n ELSE Len(seq))

\* seq[-n:]
LastN(seq, n) ==
    IF Len(seq) <= n THEN seq ELSE SubSeq(seq, Len(seq) - n + 1, Len(seq))

----------------------------------------------------------------------------
(* SMACrossoverStrategy.  The windows are constructor parameters; the two
   averages are kept over their common denominator short_window *
   long_window, which leaves every comparison of the code as it is. *)

short_window == 1
long_window == 2

sma_restore_state(st, position) ==
    IF position # None /\ position[1].strategy = Some(SMA_NAME)
    THEN [st EXCEPT !.entry_price = position[1].entry_price]
    ELSE st

\* lines 35-89 of on_tick: the new instance state and the order it places,
\* if any; "then" is what self.entry_price is set to once the order is placed
sma_signal(st, price, current_qty, cfg) ==
    LET prices == Append(st.prices, price)
    IN  IF Len(prices) < long_window
        THEN [state |-> [st EXCEPT !.prices = prices], order |-> None]
        ELSE
          LET short == Sum(LastN(prices, short_window)) * long_window
              long  == Sum(LastN(prices, long_window)) * short_window
              st1   == [st EXCEPT !.prices = prices, !.short_sma = Some(short),
                                  !.long_sma = Some(long)]
          IN  IF st.short_sma = None
              THEN [state |-> st1, order |-> None]
              ELSE
                LET golden_cross == st.short_sma[1] <= st.long_sma[1] /\ short > long
                    death_cross  == st.short_sma[1] >= st.long_sma[1] /\ short < long
                    qty_to_exit  == Abs(current_qty)
                    qty_to_trade == calculate_quantity(cfg, price)
                    exit(side)   == [qty |-> qty_to_exit, side |-> side,
                                     entry_price |-> st.entry_price,
                                     exit_reason |-> Some("SMA Crossover"),
                                     price |-> price, then |-> None]
                    entry(side)  == [qty |-> qty_to_trade, side |-> side,
                                     entry_price |-> None, exit_reason |-> None,
                                     price |-> price, then |-> Some(price)]
                IN  IF current_qty > 0 /\ death_cross
                    THEN [state |-> st1, order |-> Some(exit(-1))]
                    ELSE IF current_qty < 0 /\ golden_cross
                    THEN [state |-> st1, order |-> Some(exit(1))]
                    ELSE IF current_qty = 0 /\ qty_to_trade > 0 /\ golden_cross
                    THEN [state |-> st1, order |-> Some(entry(1))]
                    ELSE IF current_qty = 0 /\ qty_to_trade > 0 /\ death_cross
                    THEN [state |-> st1, order |-> Some(entry(-1))]
                    ELSE [state |-> st1, order |-> None]

\* lines 28-33 of on_tick: a position of another strategy makes it return
sma_not_mine(position_details) ==
    position_details # None /\ position_details[1].strategy # Some(SMA_NAME)

----------------------------------------------------------------------------
(* OpeningBreakoutStrategy.  on_tick declares its second argument a float
   and the callers pass the tick mapping: the argument is [mapping, value],
   and an arithmetic use of a mapping raises TypeError. *)

candle_close_time == 9 * 60 + 30
market_close_time == 15 * 60 + 15
threshold_percent == 1
stoploss_percent == 1
target_percent == 2
TradeType == "Intraday"

ob_quiet(st) == [state |-> st, order |-> None, raised |-> FALSE]
ob_raise(st) == [state |-> st, order |-> None, raised |-> TRUE]

ob_reset_day(st) ==
    [st EXCEPT !.fifteen_min_close_price = None, !.trade_taken_today = FALSE]

ob_manage_open_position(st, arg, ts, cfg) ==
    IF arg.mapping THEN ob_raise(st)
    ELSE
      LET price == arg.value
          entry == st.entry_price[1]
          long  == st.position = Some("long")
          target_hit == IF long THEN price * 100 >= entry * (100 + target_percent)
                        ELSE price * 100 <= entry * (100 - target_percent)
          stop_hit   == IF long THEN price * 100 <= entry * (100 - stoploss_percent)
                        ELSE price * 100 >= entry * (100 + stoploss_percent)
          square_off == TradeType = "Intraday" /\ time(ts) >= market_close_time
          reason == IF square_off THEN "Intraday Auto Square-Off"
                    ELSE IF target_hit THEN "Target Profit Hit" ELSE "Stop Loss Hit"
          qty_to_trade == calculate_quantity(cfg, price)
      IN  IF (target_hit \/ stop_hit \/ square_off) /\ qty_to_trade > 0
          THEN [state |-> [st EXCEPT !.position = None, !.trade_taken_today = TRUE],
                order |-> Some([qty |-> qty_to_trade,
                                side |-> IF long THEN -1 ELSE 1,
                                entry_price |-> st.entry_price,
                                exit_reason |-> Some(reason), price |-> price]),
                raised |-> FALSE]
          ELSE ob_quiet(st)

\* a slip that enters without looking at the quantity
ob_look_for_entry_signal_unsized(st, arg, ts, cfg) ==
    IF arg.mapping THEN ob_raise(st)
    ELSE
      LET price == arg.value
          qty_to_trade == calculate_quantity(cfg, price)
          close == st.fifteen_min_close_price[1]
          entry(side, position) ==
              [state |-> [st EXCEPT !.position = Some(position),
                                    !.entry_price = Some(price)],
               order |-> Some([qty |-> qty_to_trade, side |-> side,
                               entry_price |-> Some(price), exit_reason |-> None,
                               price |-> price]),
               raised |-> FALSE]
      IN  IF close.mapping THEN ob_raise(st)
          ELSE IF price * 100 > close.value * (100 + threshold_percent)
          THEN entry(1, "long")
          ELSE IF price * 100 < close.value * (100 - threshold_percent)
          THEN entry(-1, "short")
          ELSE ob_quiet(st)

ob_look_for_entry_signal(st, arg, ts, cfg) ==
    IF arg.mapping THEN ob_raise(st)
    ELSE
      LET price == arg.value
          qty_to_trade == calculate_quantity(cfg, price)
          close == st.fifteen_min_close_price[1]
          entry(side, position) ==
              [state |-> [st EXCEPT !.position = Some(position),
                                    !.entry_price = Some(price)],
               order |-> Some([qty |-> qty_to_trade, side |-> side,
                               entry_price |-> Some(price), exit_reason |-> None,
                               price |-> price]),
               raised |-> FALSE]
      IN  IF qty_to_trade <= 0 THEN ob_quiet(st)
          ELSE IF close.mapping THEN ob_raise(st)
          ELSE IF price * 100 > close.value * (100 + threshold_percent)
          THEN entry(1, "long")
          ELSE IF price * 100 < close.value * (100 - threshold_percent)
          THEN entry(-1, "short")
          ELSE ob_quiet(st)

\* on_tick: the new instance state, the order it places, if any, and
\* whether it raised
ob_on_tick(st, ts, arg, cfg) ==
    LET st1 == IF st.current_day = None \/ date(ts) > st.current_day[1]
               THEN [ob_reset_day(st) EXCEPT !.current_day = Some(date(ts))]
               ELSE st
    IN  IF st1.position # None
        THEN ob_manage_open_position(st1, arg, ts, cfg)
        ELSE
          LET st2 == IF st1.fifteen_min_close_price = None
                        /\ time(ts) >= candle_close_time
                     THEN [st1 EXCEPT !.fifteen_min_close_price = Some(arg)]
                     ELSE st1
          IN  IF ~st2.trade_taken_today /\ st2.fifteen_min_close_price # None
              THEN ob_look_for_entry_signal(st2, arg, ts, cfg)
              ELSE ob_quiet(st2)

----------------------------------------------------------------------------
(* DailyBreakdownStrategy: 15-minute candles built from the ticks, a short
   entry below the low of the first qualifying candle, an exit at 2% profit
   or 1% loss.  An on_tick result is the new instance state, the orders
   placed in the order of the calls, and the candle the tick closed. *)

DB_NAME == "DailyBreakdown"
CandleMinutes == 15

\* timestamp.replace(minute=(timestamp.minute // 15) * 15, second=0, microsecond=0)
floor_to_candle(ts) == ts - ((ts % 60) % CandleMinutes)

Max2(a, b) == IF a >= b THEN a ELSE b
Min2(a, b) == IF a <= b THEN a ELSE b

\* a slip that opens the new candle at the tick's own time
db_start_candle_unfloored(st, ts, price) ==
    [st EXCEPT !._current_candle_start = Some(ts),
               !._current_candle_high = Some(price),
               !._current_candle_low = Some(price),
               !._current_candle_open = Some(price)]

\* lines 56-60 and 68-72
db_start_candle(st, ts, price) ==
    [st EXCEPT !._current_candle_start = Some(floor_to_candle(ts)),
               !._current_candle_high = Some(price),
               !._current_candle_low = Some(price),
               !._current_candle_open = Some(price)]

db_process_completed_candle(st, current_price) ==
    IF st._current_candle_high = None \/ st._current_candle_low = None
          \/ st._current_candle_open = None
    THEN st
    ELSE IF st._breakdown_level # None THEN st
    ELSE
      LET high == st._current_candle_high[1]
          low  == st._current_candle_low[1]
          open == st._current_candle_open[1]
          current_candle_close == current_price
          \* move_pct < 1
          condition1 == (high - low) * 100 < low
          is_red_candle == current_candle_close < open
          \* red_candle_move_pct > 1
          condition2 == is_red_candle /\ open > 0
                           /\ (open - current_candle_close) * 100 > open
      IN  IF condition1 \/ condition2
          THEN [st EXCEPT !._first_candle_start = st._current_candle_start,
                          !._first_candle_high = st._current_candle_high,
                          !._first_candle_low = st._current_candle_low,
                          !._first_candle_open = st._current_candle_open,
                          !._first_candle_close = Some(current_candle_close),
                          !._breakdown_level = st._current_candle_low,
                          !._qualification_date = Some(date(st._current_candle_start[1]))]
          ELSE st

db_reset_qualification(st) ==
    [st EXCEPT !._first_candle_start = None, !._first_candle_high = None,
               !._first_candle_low = None, !._first_candle_open = None,
               !._first_candle_close = None, !._breakdown_level = None,
               !._qualification_date = None]

\* lines 53-76: the candle aggregation
db_candles(st, ts, price) ==
    LET st1 == IF st._current_candle_start = None
               THEN db_start_candle(st, ts, price) ELSE st
        current_candle_end == st1._current_candle_start[1] + CandleMinutes
    IN  IF ts >= current_candle_end
        THEN [state |-> db_start_candle(db_process_completed_candle(st1, price), ts, price),
              closed |-> Some([start |-> st1._current_candle_start[1],
                               high |-> st1._current_candle_high[1],
                               low |-> st1._current_candle_low[1]])]
        ELSE [state |-> [st1 EXCEPT
                           !._current_candle_high = Some(Max2(st1._current_candle_high[1], price)),
                           !._current_candle_low = Some(Min2(st1._current_candle_low[1], price))],
              closed |-> None]

\* lines 51-114 of on_tick
db_on_tick(st, ts, price, current_qty, cfg) ==
    LET current_date == date(ts)
        candles == db_candles(st, ts, price)
        st2 == candles.state
        qty == calculate_quantity(cfg, price)
        enters == /\ st2._breakdown_level # None /\ current_qty = 0
                  /\ st2._qualification_date # None
                  /\ current_date = st2._qualification_date[1]
                  /\ price < st2._breakdown_level[1]
                  /\ qty > 0
        entry == [qty |-> qty, side |-> -1, entry_price |-> None,
                  exit_reason |-> None, price |-> price]
        st3 == IF enters
               THEN [st2 EXCEPT !._entry_price = Some(price), !._entry_date = Some(current_date)]
               ELSE st2
        \* price <= entry * 0.98 or price >= entry * 1.01
        exits == /\ current_qty < 0 /\ TruthyNum(st3._entry_price)
                 /\ \/ price * 100 <= st3._entry_price[1] * 98
                    \/ price * 100 >= st3._entry_price[1] * 101
        exit == [qty |-> Abs(current_qty), side |-> 1, entry_price |-> st3._entry_price,
                 exit_reason |-> Some("SL/TP Hit"), price |-> price]
        st4 == IF exits
               THEN [st3 EXCEPT !._entry_price = None, !._entry_date = None]
               ELSE st3
        st5 == IF st4._qualification_date # None /\ current_date > st4._qualification_date[1]
               THEN db_reset_qualification(st4) ELSE st4
    IN  [state |-> st5,
         orders |-> (IF enters THEN <<entry>> ELSE <<>>) \o (IF exits THEN <<exit>> ELSE <<>>),
         closed |-> candles.closed]

----------------------------------------------------------------------------
(* NiftySMA921LongShortStrategy: long above both averages, short below
   both, stop loss at the entry price, timed exits.  An average is kept as
   the sum of its window, so price > sma is price * len > sum. *)

LS_NAME == "Nifty_9_21_SMA_LongShort"
sma9_len == 2
sma21_len == 3
exit_time_long == 15 * 60 + 15
exit_time_short == 15 * 60

\* _calc_sma, times period
calc_sma_sum(data, period) ==
    IF Len(data) < period THEN None ELSE Some(Sum(LastN(data, period)))

ls_reset_position(st) ==
    [st EXCEPT !.entry_price = None, !.sl_price_long = None,
               !.sl_price_short = None, !.entry_time = None]

\* a slip that takes the quantity the entry just placed into account
ls_exit_qty_requeried(current_qty, entered) == current_qty + entered

\* the quantity the exit blocks test: the one read at line 43
ls_exit_qty(current_qty, entered) == current_qty

\* lines 48-118 of on_tick
ls_on_tick(st, ts, price, current_qty, cfg) ==
    LET st0 == [st EXCEPT !.prices = Append(@, price), !.lows = Append(@, price),
                          !.highs = Append(@, price)]
        current_time == time(ts)
        sma9  == calc_sma_sum(st0.prices, sma9_len)
        sma21 == calc_sma_sum(st0.prices, sma21_len)
        flat == current_qty = 0 /\ TruthyNum(sma9) /\ TruthyNum(sma21)
        qty == calculate_quantity(cfg, price)
        long_entry ==  /\ flat
                       /\ price * sma9_len > sma9[1] /\ price * sma21_len > sma21[1]
                       /\ qty > 0
        short_entry == /\ flat
                       /\ ~(price * sma9_len > sma9[1] /\ price * sma21_len > sma21[1])
                       /\ price * sma9_len < sma9[1] /\ price * sma21_len < sma21[1]
                       /\ qty > 0
        entry(side) == [qty |-> qty, side |-> side, entry_price |-> None,
                        exit_reason |-> None, price |-> price]
        st1 == IF long_entry
               THEN [st0 EXCEPT !.entry_price = Some(price),
                                !.sl_price_long = Some(Min2(st0.lows[Len(st0.lows)], price)),
                                !.entry_time = Some(ts)]
               ELSE IF short_entry
               THEN [st0 EXCEPT !.entry_price = Some(price),
                                !.sl_price_short = Some(Max2(st0.highs[Len(st0.highs)], price)),
                                !.entry_time = Some(ts)]
               ELSE st0
        entries == IF long_entry THEN <<entry(1)>>
                   ELSE IF short_entry THEN <<entry(-1)>> ELSE <<>>
        entered == IF long_entry THEN qty ELSE IF short_entry THEN -qty ELSE 0
        held == ls_exit_qty(current_qty, entered)
        exit(side, reason) == [qty |-> Abs(held), side |-> side,
                               entry_price |-> st1.entry_price,
                               exit_reason |-> Some(reason), price |-> price]
        long_stop == held > 0 /\ TruthyNum(st1.sl_price_long)
                        /\ price <= st1.sl_price_long[1]
        long_eod  == held > 0 /\ TruthyNum(st1.sl_price_long) /\ ~long_stop
                        /\ current_time >= exit_time_long
        st2 == IF long_stop \/ long_eod THEN ls_reset_position(st1) ELSE st1
        long_exits == IF long_stop THEN <<exit(-1, "Stop Loss")>>
                      ELSE IF long_eod THEN <<exit(-1, "EOD Exit")>> ELSE <<>>
        short_stop == held < 0 /\ TruthyNum(st2.sl_price_short)
                         /\ price >= st2.sl_price_short[1]
        short_eod  == held < 0 /\ TruthyNum(st2.sl_price_short) /\ ~short_stop
                         /\ current_time >= exit_time_short
        st3 == IF short_stop \/ short_eod THEN ls_reset_position(st2) ELSE st2
        short_exits == IF short_stop THEN <<exit(1, "Stop Loss")>>
                       ELSE IF short_eod THEN <<exit(1, "EOD Exit")>> ELSE <<>>
    IN  [state |-> st3, orders |-> entries \o long_exits \o short_exits, closed |-> None]

----------------------------------------------------------------------------
(* FifteenMinBreakdownStrategy: short when the second 15-minute candle
   breaks the low of a quiet first one.  _reset_candles calls on_tick again
   from inside on_tick, so the two are defined together; the inner call
   reads the ledger as the outer call's order has left it. *)

FM_NAME == "15MinBreakdown"

RECURSIVE fm_on_tick(_, _, _, _, _, _)
RECURSIVE fm_reset_candles(_, _, _, _, _)

\* _reset_candles: clear, then feed the last second-candle close back in
fm_reset_candles(st, symbol, ts, pos, cfg) ==
    LET cleared == [st EXCEPT !._first_candle_start = None, !._first_candle_high = None,
                              !._first_candle_low = None, !._first_candle_close = None,
                              !._second_candle_start = None, !._entry_price = None]
    IN  IF TruthyNum(st._second_candle_close)
        THEN fm_on_tick(cleared, symbol, ts, st._second_candle_close, pos, cfg)
        ELSE [state |-> cleared, orders |-> <<>>, closed |-> None]

\* on_tick; pos is the ledger the call reads, price the value under
\* 'ltp' or 'close'
fm_on_tick(st, symbol, ts, price, pos, cfg) ==
    LET position_details == get_open_position(pos, symbol)
        is_my_trade == position_details # None
                          /\ position_details[1].strategy = Some(FM_NAME)
        current_qty == IF position_details # None
                       THEN position_details[1].quantity ELSE 0
        same == [state |-> st, orders |-> <<>>, closed |-> None]
        to(s) == [state |-> s, orders |-> <<>>, closed |-> None]
        p == price[1]
        first_end == st._first_candle_start[1] + CandleMinutes
        second_end == st._second_candle_start[1] + CandleMinutes
        qty == calculate_quantity(cfg, p)
    IN  IF ~TruthyNum(price) \/ (position_details # None /\ ~is_my_trade)
        THEN same
        ELSE IF st._first_candle_start = None
        THEN to([st EXCEPT !._first_candle_start = Some(floor_to_candle(ts)),
                           !._first_candle_high = Some(p), !._first_candle_low = Some(p),
                           !._first_candle_close = Some(p)])
        ELSE IF ts < first_end
        THEN to([st EXCEPT !._first_candle_high = Some(Max2(@[1], p)),
                           !._first_candle_low = Some(Min2(@[1], p)),
                           !._first_candle_close = Some(p)])
        ELSE IF st._second_candle_start = None
        THEN \* move_pct >= 1
             IF (st._first_candle_high[1] - st._first_candle_low[1]) * 100
                   >= st._first_candle_low[1]
             THEN fm_reset_candles(st, symbol, ts, pos, cfg)
             ELSE to([st EXCEPT !._second_candle_start = Some(first_end),
                                !._second_candle_high = Some(p),
                                !._second_candle_low = Some(p),
                                !._second_candle_close = Some(p)])
        ELSE IF ts < second_end /\ current_qty = 0
        THEN LET st1 == [st EXCEPT !._second_candle_high = Some(Max2(@[1], p)),
                                   !._second_candle_low = Some(Min2(@[1], p)),
                                   !._second_candle_close = Some(p)]
             IN  IF p < st._first_candle_low[1] /\ qty > 0
                 THEN [state |-> [st1 EXCEPT !._entry_price = Some(p)],
                       orders |-> <<[qty |-> qty, side |-> -1, entry_price |-> None,
                                     exit_reason |-> None, price |-> p]>>,
                       closed |-> None]
                 ELSE to(st1)
        ELSE IF current_qty < 0 /\ TruthyNum(st._entry_price)
        THEN IF p * 100 <= st._entry_price[1] * 98 \/ p * 100 >= st._entry_price[1] * 101
             THEN LET exit == [qty |-> Abs(current_qty), side |-> 1,
                               entry_price |-> st._entry_price,
                               exit_reason |-> Some("SL/TP Hit"), price |-> p]
                      after == positions_after(pos, symbol, exit.qty, exit.side,
                                               Some(FM_NAME), Some(p))
                      inner == fm_reset_candles(st, symbol, ts, after, cfg)
                  IN  [state |-> inner.state, orders |-> <<exit>> \o inner.orders,
                       closed |-> None]
             ELSE same
        ELSE IF ts >= second_end
        THEN fm_reset_candles(st, symbol, ts, pos, cfg)
        ELSE same

----------------------------------------------------------------------------
(* HADojiBreakout52WStrategy: long when the close breaks the high of the
   last Heikin-Ashi doji within 1%..15% of the highest recent close, out at
   a stop 6% below the entry.  The Heikin-Ashi values are halves of halves
   of prices: they are held multiplied by HaScale, which keeps every
   division of the run exact. *)

HA_NAME == "HA_Doji_Breakout_52W"
HaScale == 1024
lookback_bars == 2
min_drop_pct == 1
max_drop_pct == 15
ha_doji_body_to_range_pct == 15
sl_pct == 6

Max3(a, b, c) == Max2(a, Max2(b, c))
Min3(a, b, c) == Min2(a, Min2(b, c))

RECURSIVE MaxOf(_)
\* max() of a non-empty list
MaxOf(seq) == IF Len(seq) = 1 THEN seq[1] ELSE Max2(seq[1], MaxOf(Tail(seq)))

\* entry_price * (1 - sl_pct / 100.0)
ha_stop_loss(entry_price) == (entry_price * (100 - sl_pct)) \div 100

\* _reset_position
ha_reset_position(st) == [st EXCEPT !.entry_price = None, !.stop_loss_price = None]

\* lines 70-164 of on_tick; bar holds the four values as the data gave them
ha_on_tick(st, bar, current_qty, cfg) ==
    LET o == bar.open[1]
        h == bar.high[1]
        l == bar.low[1]
        c == bar.close[1]
        ha_close == ((o + h + l + c) * HaScale) \div 4
        ha_open == IF st.ha_open_prev = None
                   THEN ((o + c) * HaScale) \div 2
                   ELSE (st.ha_open_prev[1] + st.bars[Len(st.bars)]) \div 2
        ha_high == Max3(h * HaScale, ha_open, ha_close)
        ha_low == Min3(l * HaScale, ha_open, ha_close)
        ha_body == Abs(ha_close - ha_open)
        ha_range == ha_high - ha_low
        doji == ha_range > 0 /\ ha_body * 100 <= ha_doji_body_to_range_pct * ha_range
        appended == Append(st.close_prices, c)
        close_prices == IF Len(appended) > lookback_bars THEN Tail(appended) ELSE appended
        st1 == [st EXCEPT !.bars = Append(@, ha_close),
                          !.ha_open_prev = Some(ha_open),
                          !.last_doji_high = IF doji THEN Some(ha_high) ELSE @,
                          !.last_doji_index = IF doji THEN Some(Len(st.bars)) ELSE @,
                          !.close_prices = close_prices]
        highest_52w == MaxOf(close_prices)
        \* min_drop_pct <= (highest_52w - c) / highest_52w * 100 <= max_drop_pct
        in_52w_range == /\ min_drop_pct * highest_52w <= (highest_52w - c) * 100
                        /\ (highest_52w - c) * 100 <= max_drop_pct * highest_52w
        qty == calculate_quantity(cfg, c)
        enters == /\ st1.last_doji_high # None
                  /\ c * HaScale > st1.last_doji_high[1]
                  /\ in_52w_range
                  /\ current_qty = 0
                  /\ qty > 0
        st2 == IF enters
               THEN [st1 EXCEPT !.entry_price = Some(c),
                                !.stop_loss_price = Some(ha_stop_loss(c))]
               ELSE st1
        exits == /\ current_qty > 0
                 /\ TruthyNum(st2.stop_loss_price)
                 /\ l <= st2.stop_loss_price[1]
        st3 == IF exits THEN ha_reset_position(st2) ELSE st2
    IN  IF bar.open = None \/ bar.high = None \/ bar.low = None \/ bar.close = None
        THEN [state |-> st, orders |-> <<>>, closed |-> None]
        ELSE IF Len(close_prices) < lookback_bars
        THEN [state |-> st1, orders |-> <<>>, closed |-> None]
        ELSE [state |-> st3,
              orders |-> (IF enters
                          THEN <<[qty |-> qty, side |-> 1, entry_price |-> None,
                                  exit_reason |-> None, price |-> c]>>
                          ELSE <<>>)
                         \o (IF exits
                             THEN <<[qty |-> Abs(current_qty), side |-> -1,
                                     entry_price |-> st2.entry_price,
                                     exit_reason |-> Some("Stop Loss"),
                                     price |-> st2.stop_loss_price[1]]>>
                             ELSE <<>>),
              closed |-> None]

----------------------------------------------------------------------------
(* OrderManager.place_order as one uninterrupted call *)

place_order(symbol, qty, side, strategy_name, entry_price, exit_reason, price, timestamp, io) ==
    \E pnl \in round2(calc_pnl(side, qty, entry_price, exit_reason, price)) :
      LET rec == trade_record(symbol, qty, side, strategy_name, exit_reason,
                              price, timestamp, pnl)
          newPos == positions_after(positions, symbol, qty, side, strategy_name, price)
      IN  /\ histFile' = log_trade(histFile, rec, io)
          /\ positions' = newPos
          /\ posFile' = save_positions(posFile, newPos, io)
          /\ calls' = calls + 1
          /\ netQty' = [netQty EXCEPT ![symbol] = @ + qty * side]
          /\ lastCall' = Some([symbol |-> symbol, qty |-> qty, side |-> side,
                               strategy_name |-> strategy_name,
                               entry_price |-> entry_price,
                               exit_reason |-> exit_reason, price |-> price,
                               io |-> io, logged |-> logged(io)])

\* the place_order calls of one on_tick invocation, in call order: one call,
\* or two calls in a row
place_orders(symbol, name, orders, ts) ==
    LET o1 == orders[1]
    IN  IF Len(orders) = 1
        THEN place_order(symbol, o1.qty, o1.side, Some(name), o1.entry_price,
                         o1.exit_reason, Some(o1.price), Some(ts), IoOk)
        ELSE
          LET o2 == orders[2]
          IN  \E pnl1 \in round2(calc_pnl(o1.side, o1.qty, o1.entry_price, o1.exit_reason, Some(o1.price))),
                 pnl2 \in round2(calc_pnl(o2.side, o2.qty, o2.entry_price, o2.exit_reason, Some(o2.price))) :
                LET rec1 == trade_record(symbol, o1.qty, o1.side, Some(name), o1.exit_reason,
                                         Some(o1.price), Some(ts), pnl1)
                    rec2 == trade_record(symbol, o2.qty, o2.side, Some(name), o2.exit_reason,
                                         Some(o2.price), Some(ts), pnl2)
                    pos1 == positions_after(positions, symbol, o1.qty, o1.side, Some(name), Some(o1.price))
                    pos2 == positions_after(pos1, symbol, o2.qty, o2.side, Some(name), Some(o2.price))
                IN  /\ histFile' = log_trade(log_trade(histFile, rec1, IoOk), rec2, IoOk)
                    /\ positions' = pos2
                    /\ posFile' = save_positions(save_positions(posFile, pos1, IoOk), pos2, IoOk)
                    /\ calls' = calls + 2
                    /\ netQty' = [netQty EXCEPT ![symbol] = @ + o1.qty * o1.side + o2.qty * o2.side]
                    /\ lastCall' = Some([symbol |-> symbol, qty |-> o2.qty, side |-> o2.side,
                                         strategy_name |-> Some(name),
                                         entry_price |-> o2.entry_price,
                                         exit_reason |-> o2.exit_reason,
                                         price |-> Some(o2.price),
                                         io |-> IoOk, logged |-> logged(IoOk)])

----------------------------------------------------------------------------
(* Construction: OrderManager.__init__ with no stored positions, the
   strategies' __init__, LiveDataHandler.__init__ *)

DefaultSizing == [sizing_type |-> "Quantity", sizing_value |-> 1]

SmaInit == [prices |-> <<>>, short_sma |-> None, long_sma |-> None,
            entry_price |-> None]

\* SMACrossoverStrategy.__init__: Strategy.__init__ restores from the ledger
\* (line 11), then lines 14-17 assign the instance fields
sma_new(position) ==
    [sma_restore_state(SmaInit, position) EXCEPT
        !.prices = <<>>, !.short_sma = None, !.long_sma = None, !.entry_price = None]

\* a DailyBreakdownStrategy over an empty ledger; entry_price is the
\* attribute _restore_state_from_position assigns, unset otherwise
DbInit == [_first_candle_start |-> None, _first_candle_high |-> None,
           _first_candle_low |-> None, _first_candle_open |-> None,
           _first_candle_close |-> None, _breakdown_level |-> None,
           _qualification_date |-> None, _current_candle_start |-> None,
           _current_candle_high |-> None, _current_candle_low |-> None,
           _current_candle_open |-> None, _entry_price |-> None,
           _entry_date |-> None, entry_price |-> None]

\* DailyBreakdownStrategy._restore_state_from_position (via _initialize_state)
db_restore_state(st, position) ==
    IF position # None /\ position[1].strategy = Some(DB_NAME)
    THEN [st EXCEPT !.entry_price = position[1].entry_price]
    ELSE st

\* DailyBreakdownStrategy.__init__: Strategy.__init__ restores from the ledger
\* (line 12), then lines 15-31 assign the instance fields
db_new(position) ==
    [db_restore_state(DbInit, position) EXCEPT
        !._first_candle_start = None, !._first_candle_high = None,
        !._first_candle_low = None, !._first_candle_open = None,
        !._first_candle_close = None, !._breakdown_level = None,
        !._qualification_date = None, !._current_candle_start = None,
        !._current_candle_high = None, !._current_candle_low = None,
        !._current_candle_open = None, !._entry_price = None, !._entry_date = None]

\* NiftySMA921LongShortStrategy.__init__
LsInit == [prices |-> <<>>, lows |-> <<>>, highs |-> <<>>, entry_price |-> None,
           sl_price_long |-> None, sl_price_short |-> None, entry_time |-> None]

\* FifteenMinBreakdownStrategy.__init__; the second candle's attributes do
\* not exist until a second candle starts
FmInit == [_first_candle_start |-> None, _first_candle_high |-> None,
           _first_candle_low |-> None, _first_candle_close |-> None,
           _second_candle_start |-> None, _second_candle_high |-> None,
           _second_candle_low |-> None, _second_candle_close |-> None,
           _entry_price |-> None, entry_price |-> None]

\* HADojiBreakout52WStrategy.__init__; bars keeps of each bar the ha_close
\* that the next bar reads back
HaInit == [ha_open_prev |-> None, last_doji_high |-> None, last_doji_index |-> None,
           bars |-> <<>>, close_prices |-> <<>>, entry_price |-> None,
           stop_loss_price |-> None]

ObInit == [fifteen_min_close_price |-> None, position |-> None,
           entry_price |-> None, trade_taken_today |-> FALSE,
           current_day |-> None]

Workers == {"TickWorker_0", "TickWorker_1"}

\* the first OrderManager of the process found no positions file
SessionInit == [n |-> 1, load |-> "absent"]

InstNames == {DB_NAME, LS_NAME, FM_NAME, HA_NAME}

InstInit ==
    [n \in InstNames |->
        IF n = DB_NAME THEN DbInit
        ELSE IF n = LS_NAME THEN LsInit
        ELSE IF n = FM_NAME THEN FmInit
        ELSE HaInit]

\* the executor accepts work; nothing delivered, refused or logged yet
DhInit == [shut |-> "open", cutoff |-> 0, accepted |-> <<>>, delivered |-> <<>>,
           finished |-> {}, refused |-> {}, errors |-> 0]

ReplayInit == [name |-> "", series |-> <<>>, fed |-> 0, run |-> 1, first |-> <<>>]

\* the threads that call into the engine: the GUI starts a thread for a
\* session start or a backtest and calls stop_session itself
Threads == {"MainThread", "Thread-1"}

\* a thread that is not inside a call of the engine
ThIdle == [pc |-> "idle", call |-> 0, i |-> 0, rows |-> <<>>, strategy_instance |-> None]

\* TradingEngine.__init__.  ldh and sockets hold the LiveDataHandler and
\* FyersDataSocket objects made so far and the attributes refer to them by
\* position (0 is None); oms counts the OrderManager objects made; hist
\* keeps, per call begun, its arguments and what it did; instances and got
\* are the strategy instances constructed and those that received a tick
EngInit ==
    [fyers |-> FALSE, access_token |-> FALSE, order_manager |-> 0, oms |-> 0,
     live_data_handler |-> 0, ldh |-> <<>>, fyers_socket |-> 0, sockets |-> <<>>,
     _simulation_running |-> FALSE, _stop_simulation_flag |-> FALSE,
     instances |-> {}, got |-> {}, log |-> {}, hist |-> <<>>, feed |-> 0,
     th |-> [t \in Threads |-> ThIdle]]

WkIdle == [pc |-> "idle", msg |-> None, ts |-> None, order |-> None,
           history |-> <<>>, details |-> None, qty |-> 0]

Init ==
    /\ positions = <<>>
    /\ posFile = <<>>
    /\ histFile = <<>>
    /\ clock = 0
    /\ calls = 0
    /\ netQty = [s \in Symbols |-> 0]
    /\ lastCall = None
    /\ sizing = DefaultSizing
    /\ sized = None
    /\ sma = SmaInit
    /\ ob = ObInit
    /\ lastTick = None
    /\ placed = <<>>
    /\ queue = <<>>
    /\ ticks = 0
    /\ wk = [w \in Workers |-> WkIdle]
    /\ session = SessionInit
    /\ inst = InstInit
    /\ dh = DhInit
    /\ replay = ReplayInit
    /\ eng = EngInit

----------------------------------------------------------------------------
(* The ledger driven by a single caller, storage working *)

MaxOrders == 3
Qtys == {1, 2}
OrderPrices == {Some(1000), Some(1004)}

Order ==
    /\ calls < MaxOrders
    /\ \E symbol \in Symbols, qty \in Qtys, side \in Sides, price \in OrderPrices :
          place_order(symbol, qty, side, Some(SMA_NAME), None, None, price, None, IoOk)
    /\ clock' = clock + 1
    /\ UNCHANGED <<moreVars, sizingVars, stratVars, liveVars>>

Next == Order

Spec == Init /\ [][Next]_vars

----------------------------------------------------------------------------
(* Orders on one ledger under varying strategy names *)

MaxOwnerOrders == 3
OwnerNames == {Some(SMA_NAME), Some(OB_NAME), None}

OwnerOrder ==
    /\ calls < MaxOwnerOrders
    /\ \E symbol \in Symbols, qty \in Qtys, side \in Sides, strategy_name \in OwnerNames :
          place_order(symbol, qty, side, strategy_name, None, None, Some(1000), None, IoOk)
    /\ clock' = clock + 1
    /\ UNCHANGED <<moreVars, sizingVars, stratVars, liveVars>>

OwnerNext == OwnerOrder

OwnerSpec == Init /\ [][OwnerNext]_vars

----------------------------------------------------------------------------
(* Entries and exits through place_order, every argument of the P&L varied *)

MaxPnlOrders == 1
PnlPrices == {None, Some(0), Some(1000), Some(1004), Some(1015)}
ExitReasons == {None, Some(""), Some("Stop Loss")}

PnlOrder ==
    /\ calls < MaxPnlOrders
    /\ \E qty \in Qtys, side \in Sides, entry_price \in PnlPrices,
          exit_reason \in ExitReasons, price \in PnlPrices :
          place_order("NSE:SBIN-EQ", qty, side, Some(SMA_NAME), entry_price,
                      exit_reason, price, None, IoOk)
    /\ clock' = clock + 1
    /\ UNCHANGED <<moreVars, sizingVars, stratVars, liveVars>>

PnlNext == PnlOrder

PnlSpec == Init /\ [][PnlNext]_vars

----------------------------------------------------------------------------
(* The ledger driven by a single caller, storage failing at will: the read
   of the history (IOError, JSONDecodeError) and each write (IOError) *)

MaxFaultOrders == 2

FaultyOrder ==
    /\ calls < MaxFaultOrders
    /\ \E symbol \in Symbols, side \in Sides, io \in IoOutcomes :
          place_order(symbol, 1, side, Some(SMA_NAME), None, None, Some(1000), None, io)
    /\ clock' = clock + 1
    /\ UNCHANGED <<moreVars, sizingVars, stratVars, liveVars>>

FaultNext == FaultyOrder

FaultSpec == Init /\ [][FaultNext]_vars

----------------------------------------------------------------------------
(* Process restarts: a new OrderManager is constructed on the positions
   file the previous one left.  json.dump writes the ledger as a JSON object
   of objects, None as null; json.load reads it back. *)

MaxSessions == 2

JsonNull == [t |-> "null"]
json_value(o) == IF o = None THEN JsonNull ELSE [t |-> "value", v |-> o[1]]
python_value(j) == IF j = JsonNull THEN None ELSE Some(j.v)

\* json.dump(self.positions, f)
json_dump(pos) ==
    {[key |-> s,
      object |-> [quantity |-> pos[s].quantity,
                  strategy |-> json_value(pos[s].strategy),
                  entry_price |-> json_value(pos[s].entry_price)]] : s \in DOMAIN pos}

\* json.load(f)
json_load(text) ==
    [s \in {m.key : m \in text} |->
        LET o == (CHOOSE m \in text : m.key = s).object
        IN  [quantity |-> o.quantity,
             strategy |-> python_value(o.strategy),
             entry_price |-> python_value(o.entry_price)]]

\* a slip that reads the file in the old symbol -> quantity layout
load_positions_quantity_only(file, read) ==
    IF read = "ok"
    THEN [s \in DOMAIN file |->
            [quantity |-> file[s].quantity, strategy |-> None, entry_price |-> None]]
    ELSE <<>>

\* _load_positions: the stored ledger, or {} when the file cannot be read
load_positions(file, read) ==
    IF read = "ok" THEN json_load(json_dump(file)) ELSE <<>>

\* OrderManager.__init__ in a new process
Restart ==
    /\ session.n < MaxSessions
    /\ \E read \in {"ok", "fail"} :
          /\ positions' = load_positions(posFile, read)
          /\ session' = [n |-> session.n + 1, load |-> read]
    /\ UNCHANGED <<posFile, histFile, clock, callVars, sizingVars, stratVars,
                   liveVars, inst, dh, replay, eng>>

RestartNext == FaultyOrder \/ Restart

RestartSpec == Init /\ [][RestartNext]_vars

----------------------------------------------------------------------------
(* _calculate_quantity on every sizing configuration and price *)

MaxSizing == 4
SizingPrices == {k * (PriceScale \div 2) : k \in -1 .. (2 * MaxSizing + 2)}

SizingInit ==
    /\ Init!1 /\ Init!2 /\ Init!3 /\ Init!4 /\ Init!5 /\ Init!6 /\ Init!7
    /\ sizing \in [sizing_type : SizingTypes, sizing_value : 1 .. MaxSizing]
    /\ Init!9 /\ Init!10 /\ Init!11 /\ Init!12 /\ Init!13 /\ Init!14
    /\ Init!15 /\ Init!16 /\ Init!17 /\ Init!18 /\ Init!19 /\ Init!20 /\ Init!21

CalculateQuantity ==
    /\ \E price \in SizingPrices :
          sized' = Some([price |-> price, quantity |-> calculate_quantity(sizing, price)])
    /\ UNCHANGED <<moreVars, ledgerVars, clock, callVars, sizing, stratVars, liveVars>>

SizingNext == CalculateQuantity

SizingSpec == SizingInit /\ [][SizingNext]_vars

----------------------------------------------------------------------------
(* Replay: one SMACrossoverStrategy and one OpeningBreakoutStrategy on the
   same symbol and the same ledger, fed one tick at a time in chronological
   order (run_backtest's loop); the ledger may have been loaded from a
   positions file a previous session left. *)

MaxStratTicks == 4
StratSymbol == "NSE:SBIN-EQ"
TickPrices == {980, 1000, 1020}
TickTimes == {At(0, 9, 15), At(0, 9, 30), At(0, 15, 15), At(1, 9, 30)}

StoredPosition(name) ==
    [s \in {StratSymbol} |->
        [quantity |-> IF name = DB_NAME THEN -1 ELSE 1, strategy |-> Some(name),
         entry_price |-> Some(1000)]]
StoredLedgers ==
    {<<>>, StoredPosition(SMA_NAME), StoredPosition(OB_NAME), StoredPosition(DB_NAME)}

\* whether the ledger holds a position on the symbol under another name
ForeignPositionHeld(symbol, name) ==
    symbol \in DOMAIN positions /\ positions[symbol].strategy # Some(name)

OrderKind(order) == IF order.exit_reason # None THEN "exit" ELSE "entry"

Placed(symbol, name, order) ==
    [symbol |-> symbol, strategy |-> name, kind |-> OrderKind(order),
     held |-> symbol \in DOMAIN positions]

StratInit ==
    /\ \E stored \in StoredLedgers :
          /\ positions = stored
          /\ posFile = stored
          /\ sma = sma_new(get_open_position(stored, StratSymbol))
          /\ inst = [InstInit EXCEPT
                       ![DB_NAME] = db_new(get_open_position(stored, StratSymbol))]
          /\ session = [n |-> 1, load |-> IF stored = <<>> THEN "absent" ELSE "ok"]
    /\ Init!3 /\ Init!4 /\ Init!5 /\ Init!6 /\ Init!7 /\ Init!8 /\ Init!9
    /\ Init!11 /\ Init!12 /\ Init!13 /\ Init!14 /\ Init!15 /\ Init!16
    /\ Init!19 /\ Init!20 /\ Init!21

\* SMACrossoverStrategy.on_tick
SmaOnTick(ts, data) ==
    LET price == tick_price(data)
        position_details == get_open_position(positions, StratSymbol)
        current_qty == IF position_details # None
                       THEN position_details[1].quantity ELSE 0
        sig == sma_signal(sma, price[1], current_qty, sizing)
        seen == [strategy |-> SMA_NAME,
                 foreign |-> ForeignPositionHeld(StratSymbol, SMA_NAME),
                 raised |-> FALSE, orders |-> 0]
    IN  IF ~TruthyNum(price) \/ sma_not_mine(position_details)
        THEN /\ lastTick' = Some(seen)
             /\ UNCHANGED <<ledgerVars, callVars, sma, placed>>
        ELSE IF sig.order = None
        THEN /\ sma' = sig.state
             /\ lastTick' = Some(seen)
             /\ UNCHANGED <<ledgerVars, callVars, placed>>
        ELSE /\ place_order(StratSymbol, sig.order[1].qty, sig.order[1].side,
                            Some(SMA_NAME), sig.order[1].entry_price,
                            sig.order[1].exit_reason, Some(sig.order[1].price),
                            Some(ts), IoOk)
             /\ sma' = [sig.state EXCEPT !.entry_price = sig.order[1].then]
             /\ lastTick' = Some([seen EXCEPT !.orders = 1])
             /\ placed' = Append(placed, Placed(StratSymbol, SMA_NAME, sig.order[1]))

\* OpeningBreakoutStrategy.on_tick
ObOnTick(ts, arg) ==
    LET res == ob_on_tick(ob, ts, arg, sizing)
        seen == [strategy |-> OB_NAME,
                 foreign |-> ForeignPositionHeld(StratSymbol, OB_NAME),
                 raised |-> res.raised, orders |-> 0]
    IN  /\ ob' = res.state
        /\ IF res.order = None
           THEN /\ lastTick' = Some(seen)
                /\ UNCHANGED <<ledgerVars, callVars, placed>>
           ELSE /\ place_order(StratSymbol, res.order[1].qty, res.order[1].side,
                               Some(OB_NAME), res.order[1].entry_price,
                               res.order[1].exit_reason, Some(res.order[1].price),
                               Some(ts), IoOk)
                /\ lastTick' = Some([seen EXCEPT !.orders = 1])
                /\ placed' = Append(placed, Placed(StratSymbol, OB_NAME, res.order[1]))

\* what one on_tick of a strategy object does to the program: skip is the
\* early return before any state is touched, res the outcome otherwise
InstOnTick(name, ts, skip, res) ==
    LET seen == [strategy |-> name,
                 foreign |-> ForeignPositionHeld(StratSymbol, name),
                 raised |-> FALSE, orders |-> 0, closed |-> None]
    IN  IF skip
        THEN /\ lastTick' = Some(seen)
             /\ UNCHANGED <<ledgerVars, callVars, inst, placed>>
        ELSE /\ inst' = [inst EXCEPT ![name] = res.state]
             /\ lastTick' = Some([seen EXCEPT !.orders = Len(res.orders),
                                              !.closed = res.closed])
             /\ IF res.orders = <<>>
                THEN UNCHANGED <<ledgerVars, callVars, placed>>
                ELSE /\ place_orders(StratSymbol, name, res.orders, ts)
                     /\ placed' = placed \o [i \in 1 .. Len(res.orders) |->
                                               Placed(StratSymbol, name, res.orders[i])]

\* the position of the symbol held under another strategy's name
NotMine(name) ==
    LET position_details == get_open_position(positions, StratSymbol)
    IN  position_details # None /\ position_details[1].strategy # Some(name)

\* current_qty as on_tick reads it
CurrentQty == get_position(positions, StratSymbol)

\* DailyBreakdownStrategy.on_tick
DbOnTick(ts, data) ==
    LET price == tick_price(data)
    IN  InstOnTick(DB_NAME, ts, ~TruthyNum(price) \/ NotMine(DB_NAME),
                   db_on_tick(inst[DB_NAME], ts, price[1], CurrentQty, sizing))

\* NiftySMA921LongShortStrategy.on_tick
LsOnTick(ts, data) ==
    LET price == tick_price(data)
    IN  InstOnTick(LS_NAME, ts, ~TruthyNum(price) \/ NotMine(LS_NAME),
                   ls_on_tick(inst[LS_NAME], ts, price[1], CurrentQty, sizing))

\* FifteenMinBreakdownStrategy.on_tick
FmOnTick(ts, data) ==
    InstOnTick(FM_NAME, ts, FALSE,
               fm_on_tick(inst[FM_NAME], StratSymbol, ts, tick_price(data), positions, sizing))

\* HADojiBreakout52WStrategy.on_tick
HaOnTick(ts, bar) ==
    InstOnTick(HA_NAME, ts, NotMine(HA_NAME),
               ha_on_tick(inst[HA_NAME], bar, CurrentQty, sizing))

SmaTick ==
    /\ ticks < MaxStratTicks
    /\ \E ts \in TickTimes, p \in TickPrices :
          /\ ts >= clock
          /\ clock' = ts
          /\ SmaOnTick(ts, [ltp |-> None, close |-> Some(p)])
    /\ ticks' = ticks + 1
    /\ UNCHANGED <<moreVars, sizingVars, ob, queue, wk>>

ObTick ==
    /\ ticks < MaxStratTicks
    /\ \E ts \in TickTimes, p \in TickPrices, m \in BOOLEAN :
          /\ ts >= clock
          /\ clock' = ts
          /\ ObOnTick(ts, [mapping |-> m, value |-> p])
    /\ ticks' = ticks + 1
    /\ UNCHANGED <<moreVars, sizingVars, sma, queue, wk>>

DbTick ==
    /\ ticks < MaxStratTicks
    /\ \E ts \in TickTimes, p \in TickPrices :
          /\ ts >= clock
          /\ clock' = ts
          /\ DbOnTick(ts, [ltp |-> None, close |-> Some(p)])
    /\ ticks' = ticks + 1
    /\ UNCHANGED <<sizingVars, sma, ob, queue, wk, session, dh, replay, eng>>

StratNext == SmaTick \/ ObTick \/ DbTick

StratSpec == StratInit /\ [][StratNext]_vars

----------------------------------------------------------------------------
(* run_backtest: one strategy object on the engine's ledger, fed the rows
   of a candle table in index order.  Every row is a mapping with open,
   high, low and close; the strategies that read one price see its close. *)

MaxBacktestTicks == 5

BacktestTimes ==
    {At(0, 9, 15), At(0, 9, 20), At(0, 9, 30), At(0, 9, 35), At(0, 9, 45),
     At(0, 15, 15), At(1, 9, 15)}

\* a candle that opened, peaked, bottomed and closed at one price
Flat(p) == [open |-> Some(p), high |-> Some(p), low |-> Some(p), close |-> Some(p)]

\* a doji, a rally, a close above the doji's high, a fall through the stop
HaBars ==
    {[open |-> Some(1000), high |-> Some(1020), low |-> Some(980), close |-> Some(1000)],
     [open |-> Some(1000), high |-> Some(1100), low |-> Some(1000), close |-> Some(1100)],
     [open |-> Some(1040), high |-> Some(1050), low |-> Some(1040), close |-> Some(1050)],
     [open |-> Some(1000), high |-> Some(1000), low |-> Some(980), close |-> Some(1000)]}

\* row.to_dict() as the strategies that call data.get('ltp', data.get('close')) read it
RowData(row) == [ltp |-> None, close |-> row.close]

\* the loop of run_backtest is at its next row, for the strategy it runs
BacktestStep(name) ==
    /\ ticks < MaxBacktestTicks
    /\ lastTick # None => lastTick[1].strategy = name /\ ~lastTick[1].raised
    /\ ticks' = ticks + 1

BtSmaTick ==
    /\ BacktestStep(SMA_NAME)
    /\ \E ts \in BacktestTimes, p \in TickPrices :
          /\ ts > clock
          /\ clock' = ts
          /\ SmaOnTick(ts, RowData(Flat(p)))
    /\ UNCHANGED <<moreVars, sizingVars, ob, queue, wk>>

BtObTick ==
    /\ BacktestStep(OB_NAME)
    /\ \E ts \in BacktestTimes, p \in TickPrices :
          /\ ts > clock
          /\ clock' = ts
          /\ ObOnTick(ts, [mapping |-> TRUE, value |-> p])
    /\ UNCHANGED <<moreVars, sizingVars, sma, queue, wk>>

BtDbTick ==
    /\ BacktestStep(DB_NAME)
    /\ \E ts \in BacktestTimes, p \in TickPrices :
          /\ ts > clock
          /\ clock' = ts
          /\ DbOnTick(ts, RowData(Flat(p)))
    /\ UNCHANGED <<sizingVars, sma, ob, queue, wk, session, dh, replay, eng>>

BtLsTick ==
    /\ BacktestStep(LS_NAME)
    /\ \E ts \in BacktestTimes, p \in TickPrices :
          /\ ts > clock
          /\ clock' = ts
          /\ LsOnTick(ts, RowData(Flat(p)))
    /\ UNCHANGED <<sizingVars, sma, ob, queue, wk, session, dh, replay, eng>>

BtFmTick ==
    /\ BacktestStep(FM_NAME)
    /\ \E ts \in BacktestTimes, p \in TickPrices :
          /\ ts > clock
          /\ clock' = ts
          /\ FmOnTick(ts, RowData(Flat(p)))
    /\ UNCHANGED <<sizingVars, sma, ob, queue, wk, session, dh, replay, eng>>

BtHaTick ==
    /\ BacktestStep(HA_NAME)
    /\ \E ts \in BacktestTimes, bar \in HaBars :
          /\ ts > clock
          /\ clock' = ts
          /\ HaOnTick(ts, bar)
    /\ UNCHANGED <<sizingVars, sma, ob, queue, wk, session, dh, replay, eng>>

BacktestNext == BtSmaTick \/ BtObTick \/ BtDbTick \/ BtLsTick \/ BtFmTick \/ BtHaTick

BacktestSpec == Init /\ [][BacktestNext]_vars

----------------------------------------------------------------------------
(* The replay loop of run_backtest run twice over one candle table: the
   first run feeds rows of its choosing and the table is remembered; then
   the ledger, the journal and the strategy object are made anew and the
   second run feeds the same rows.  The clock of the machine runs on
   through both. *)

StrategyNames == {SMA_NAME, OB_NAME} \cup InstNames

\* the index of the table is drawn from these
ReplayTimes == {At(0, 9, 15), At(0, 9, 30), At(0, 9, 35), At(0, 9, 45), At(0, 15, 15)}

\* the rows a strategy is fed: one-price candles, or the bars that make
\* the Heikin-Ashi strategy trade
Rows(name) == IF name = HA_NAME THEN HaBars ELSE {Flat(p) : p \in TickPrices}

\* strategy_instance.on_tick(timestamp.to_pydatetime(), row.to_dict())
StrategyOnTick(name, ts, row) ==
    IF name = SMA_NAME THEN SmaOnTick(ts, RowData(row)) /\ UNCHANGED <<ob, inst>>
    ELSE IF name = OB_NAME
    THEN ObOnTick(ts, [mapping |-> TRUE, value |-> row.close[1]]) /\ UNCHANGED <<sma, inst>>
    ELSE IF name = DB_NAME THEN DbOnTick(ts, RowData(row)) /\ UNCHANGED <<sma, ob>>
    ELSE IF name = LS_NAME THEN LsOnTick(ts, RowData(row)) /\ UNCHANGED <<sma, ob>>
    ELSE IF name = FM_NAME THEN FmOnTick(ts, RowData(row)) /\ UNCHANGED <<sma, ob>>
    ELSE HaOnTick(ts, row) /\ UNCHANGED <<sma, ob>>

\* the loop has not been ended by an exception
ReplayRunning == lastTick # None => ~lastTick[1].raised

\* first run: the next row of the table, later than the last one
ReplayFirst ==
    /\ replay.run = 1
    /\ replay.fed < MaxBacktestTicks
    /\ ReplayRunning
    /\ \E name \in StrategyNames, ts \in ReplayTimes :
          \E row \in Rows(name) :
             /\ replay.series # <<>> =>
                   /\ name = replay.name
                   /\ ts > replay.series[Len(replay.series)].ts
             /\ StrategyOnTick(name, ts, row)
             /\ replay' = [replay EXCEPT !.name = name, !.fed = @ + 1,
                                         !.series = Append(@, [ts |-> ts, row |-> row])]
    /\ clock' = clock + 1
    /\ ticks' = ticks + 1
    /\ UNCHANGED <<sizingVars, queue, wk, session, dh, eng>>

\* between the runs: the journal of the first run is kept aside, and a
\* fresh OrderManager over empty files and a fresh strategy are made
ReplayAgain ==
    /\ replay.run = 1
    /\ replay.fed > 0
    /\ replay' = [replay EXCEPT !.run = 2, !.fed = 0, !.first = histFile]
    /\ positions' = <<>>
    /\ posFile' = <<>>
    /\ histFile' = <<>>
    /\ calls' = 0
    /\ netQty' = [s \in Symbols |-> 0]
    /\ lastCall' = None
    /\ sma' = SmaInit
    /\ ob' = ObInit
    /\ inst' = InstInit
    /\ lastTick' = None
    /\ placed' = <<>>
    /\ clock' = clock + 1
    /\ UNCHANGED <<sizingVars, liveVars, session, dh, eng>>

\* second run: the same rows in the same order
ReplaySecond ==
    /\ replay.run = 2
    /\ replay.fed < Len(replay.series)
    /\ ReplayRunning
    /\ StrategyOnTick(replay.name, replay.series[replay.fed + 1].ts,
                      replay.series[replay.fed + 1].row)
    /\ replay' = [replay EXCEPT !.fed = @ + 1]
    /\ clock' = clock + 1
    /\ ticks' = ticks + 1
    /\ UNCHANGED <<sizingVars, queue, wk, session, dh, eng>>

ReplayNext == ReplayFirst \/ ReplayAgain \/ ReplaySecond

ReplaySpec == Init /\ [][ReplayNext]_vars

----------------------------------------------------------------------------
(* The candle aggregation of DailyBreakdownStrategy under ticks that carry
   a price, in time order, on a symbol no other strategy trades; the ticks
   fed are remembered so that the candles can be compared with them. *)

MaxCandleTicks == 4

CandleTimes ==
    {At(0, 9, 15), At(0, 9, 20), At(0, 9, 29), At(0, 9, 30), At(0, 9, 44),
     At(0, 9, 50), At(0, 10, 7), At(1, 9, 16)}

CandleTick ==
    /\ ticks < MaxCandleTicks
    /\ \E ts \in CandleTimes, p \in TickPrices :
          /\ ts >= clock
          /\ clock' = ts
          /\ DbOnTick(ts, [ltp |-> Some(p), close |-> None])
          /\ replay' = [replay EXCEPT !.name = DB_NAME, !.fed = @ + 1,
                                      !.series = Append(@, [ts |-> ts, row |-> Flat(p)])]
    /\ ticks' = ticks + 1
    /\ UNCHANGED <<sizingVars, sma, ob, queue, wk, session, dh, eng>>

CandleNext == CandleTick

CandleSpec == Init /\ [][CandleNext]_vars

\* the prices of the ticks fed so far whose time fell in [start, start + 15 min)
PricesIn(series, start) ==
    {series[k].row.close[1] : k \in {i \in 1 .. Len(series) :
                                       /\ series[i].ts >= start
                                       /\ series[i].ts < start + CandleMinutes}}

\* the largest and the smallest member of a non-empty set of numbers
SetMax(S) == CHOOSE x \in S : \A y \in S : y <= x
SetMin(S) == CHOOSE x \in S : \A y \in S : x <= y

\* a time that is a whole multiple of 15 minutes past its hour
OnQuarter(start) == (start % 60) % 15 = 0

----------------------------------------------------------------------------
(* Live dispatch: LiveDataHandler.on_message submits every tick to the
   thread pool; each worker runs _process_tick, the strategy's on_tick and
   OrderManager.place_order on the shared strategy instance and the shared
   ledger with no lock.  A worker's call is cut at the points where it
   reads or writes shared state; threads may switch at any of them. *)

MaxLiveTicks == 4
LiveSymbol == "NSE:SBIN-EQ"
active_strategies == {LiveSymbol}
LiveMessages ==
    [symbol : {LiveSymbol}, ltp : {Some(1000), Some(1020)}, close : {None}]
        \cup [symbol : Symbols \ active_strategies, ltp : {Some(1000)}, close : {None}]

\* _process_tick, line 29: msg.get("ltp") or msg.get("close")
process_tick_price(msg) == IF TruthyNum(msg.ltp) THEN msg.ltp ELSE msg.close

SetWk(w, rec) == wk' = [wk EXCEPT ![w] = rec]

\* LiveDataHandler.on_message
Submit ==
    /\ ticks < MaxLiveTicks
    /\ \E msg \in LiveMessages : queue' = Append(queue, [msg |-> msg, timestamp |-> None])
    /\ ticks' = ticks + 1
    /\ clock' = clock + 1
    /\ UNCHANGED <<moreVars, ledgerVars, callVars, sizingVars, stratVars, wk>>

\* a free worker takes the oldest submitted tick: _process_tick lines 27-34
\* and on_tick lines 23-26
Take(w) ==
    /\ wk[w].pc = "idle"
    /\ queue # <<>>
    /\ queue' = Tail(queue)
    /\ LET msg == Head(queue).msg
           tick_timestamp == IF Head(queue).timestamp # None
                             THEN Head(queue).timestamp ELSE Some(clock)
       IN  IF msg.symbol \in active_strategies /\ process_tick_price(msg) # None
              /\ TruthyNum(tick_price(msg))
           THEN SetWk(w, [WkIdle EXCEPT !.pc = "read", !.msg = Some(msg),
                                        !.ts = tick_timestamp])
           ELSE UNCHANGED wk
    /\ UNCHANGED <<moreVars, ledgerVars, callVars, sizingVars, stratVars, ticks, clock>>

\* on_tick lines 28-33
StratRead(w) ==
    /\ wk[w].pc = "read"
    /\ LET position_details == get_open_position(positions, LiveSymbol)
           current_qty == IF position_details # None
                          THEN position_details[1].quantity ELSE 0
       IN  IF sma_not_mine(position_details)
           THEN SetWk(w, WkIdle)
           ELSE SetWk(w, [wk[w] EXCEPT !.pc = "signal", !.qty = current_qty])
    /\ UNCHANGED <<moreVars, ledgerVars, callVars, sizingVars, stratVars, queue, ticks, clock>>

\* on_tick lines 35-89 up to the call of place_order, and place_order
\* lines 82-116 (the record is built from the arguments alone)
Signal(w) ==
    /\ wk[w].pc = "signal"
    /\ LET sig == sma_signal(sma, tick_price(wk[w].msg[1])[1], wk[w].qty, sizing)
       IN  /\ sma' = sig.state
           /\ IF sig.order = None
              THEN /\ SetWk(w, WkIdle)
                   /\ UNCHANGED <<callVars, placed>>
              ELSE /\ SetWk(w, [wk[w] EXCEPT !.pc = "log_read", !.order = sig.order])
                   /\ placed' = Append(placed, Placed(LiveSymbol, SMA_NAME, sig.order[1]))
                   /\ calls' = calls + 1
                   /\ netQty' = [netQty EXCEPT ![LiveSymbol] =
                                    @ + sig.order[1].qty * sig.order[1].side]
                   /\ lastCall' = Some([symbol |-> LiveSymbol, qty |-> sig.order[1].qty,
                                        side |-> sig.order[1].side,
                                        strategy_name |-> Some(SMA_NAME),
                                        entry_price |-> sig.order[1].entry_price,
                                        exit_reason |-> sig.order[1].exit_reason,
                                        price |-> Some(sig.order[1].price), io |-> IoOk,
                                        logged |-> logged(IoOk)])
    /\ UNCHANGED <<moreVars, ledgerVars, sizingVars, ob, lastTick, queue, ticks, clock>>

\* _log_trade lines 45-54
LogRead(w) ==
    /\ wk[w].pc = "log_read"
    /\ SetWk(w, [wk[w] EXCEPT !.pc = "log_write", !.history = log_trade_read(histFile, IoOk)])
    /\ UNCHANGED <<moreVars, ledgerVars, callVars, sizingVars, stratVars, queue, ticks, clock>>

\* _log_trade lines 56-59
LogWrite(w) ==
    /\ wk[w].pc = "log_write"
    /\ LET o == wk[w].order[1]
       IN  \E pnl \in round2(calc_pnl(o.side, o.qty, o.entry_price, o.exit_reason, Some(o.price))) :
             histFile' = log_trade_write(histFile, wk[w].history,
                            trade_record(LiveSymbol, o.qty, o.side, Some(SMA_NAME),
                                         o.exit_reason, Some(o.price), wk[w].ts, pnl),
                            IoOk)
    /\ SetWk(w, [wk[w] EXCEPT !.pc = "pos_read", !.history = <<>>])
    /\ UNCHANGED <<moreVars, positions, posFile, callVars, sizingVars, stratVars, queue, ticks, clock>>

\* place_order lines 120-121
PosRead(w) ==
    /\ wk[w].pc = "pos_read"
    /\ SetWk(w, [wk[w] EXCEPT !.pc = "pos_write",
                              !.details = get_open_position(positions, LiveSymbol),
                              !.qty = get_position(positions, LiveSymbol)])
    /\ UNCHANGED <<moreVars, ledgerVars, callVars, sizingVars, stratVars, queue, ticks, clock>>

\* place_order lines 122-134; line 134 raises KeyError when the entry read
\* at line 120 has been deleted since, and _process_tick line 35 catches it
PosWrite(w) ==
    /\ wk[w].pc = "pos_write"
    /\ LET o == wk[w].order[1]
           new_qty == wk[w].qty + (o.qty * o.side)
       IN  IF new_qty # 0 /\ wk[w].details # None /\ LiveSymbol \notin DOMAIN positions
           THEN /\ SetWk(w, WkIdle)
                /\ UNCHANGED positions
           ELSE /\ positions' = update_position(positions, wk[w].details, wk[w].qty,
                                    LiveSymbol, o.qty, o.side, Some(SMA_NAME), Some(o.price))
                /\ SetWk(w, [wk[w] EXCEPT !.pc = "pos_save", !.details = None, !.qty = 0])
    /\ UNCHANGED <<moreVars, posFile, histFile, callVars, sizingVars, stratVars, queue, ticks, clock>>

\* place_order line 135
PosSave(w) ==
    /\ wk[w].pc = "pos_save"
    /\ posFile' = save_positions(posFile, positions, IoOk)
    /\ SetWk(w, [wk[w] EXCEPT !.pc = "post"])
    /\ UNCHANGED <<moreVars, positions, histFile, callVars, sizingVars, stratVars, queue, ticks, clock>>

\* on_tick lines 60, 70, 82, 89: self.entry_price after place_order returned
Post(w) ==
    /\ wk[w].pc = "post"
    /\ sma' = [sma EXCEPT !.entry_price = wk[w].order[1].then]
    /\ SetWk(w, WkIdle)
    /\ UNCHANGED <<moreVars, ledgerVars, callVars, sizingVars, ob, lastTick, placed, queue, ticks, clock>>

LiveNext ==
    \/ Submit
    \/ \E w \in Workers :
          \/ Take(w)
          \/ StratRead(w)
          \/ Signal(w)
          \/ LogRead(w)
          \/ LogWrite(w)
          \/ PosRead(w)
          \/ PosWrite(w)
          \/ PosSave(w)
          \/ Post(w)

LiveSpec == Init /\ [][LiveNext]_vars

\* every submitted tick has been processed and every call has returned
AllReturned == queue = <<>> /\ \A w \in Workers : wk[w].pc = "idle"

----------------------------------------------------------------------------
(* start_live_simulation: the rows of the sorted candle table go one by one
   through _on_live_data to LiveDataHandler.on_message, each with its own
   timestamp; the loop sleeps between rows and never waits for a row to be
   processed.  The workers are those of the live dispatch above. *)

MaxSimTicks == 4
SimCloses == {1000, 1020}

\* the index of the sorted table: one-minute candles from the open
SimTimestamp(n) == At(0, 9, 15) + n

\* one pass of the loop at lines 238-280
SimSubmit ==
    /\ ticks < MaxSimTicks
    /\ \E p \in SimCloses :
          queue' = Append(queue, [msg |-> [symbol |-> LiveSymbol, ltp |-> None,
                                           close |-> Some(p)],
                                  timestamp |-> Some(SimTimestamp(ticks))])
    /\ ticks' = ticks + 1
    /\ clock' = clock + 1
    /\ UNCHANGED <<moreVars, ledgerVars, callVars, sizingVars, stratVars, wk>>

SimNext ==
    \/ SimSubmit
    \/ \E w \in Workers :
          \/ Take(w)
          \/ StratRead(w)
          \/ Signal(w)
          \/ LogRead(w)
          \/ LogWrite(w)
          \/ PosRead(w)
          \/ PosWrite(w)
          \/ PosSave(w)
          \/ Post(w)

SimSpec == Init /\ [][SimNext]_vars

----------------------------------------------------------------------------
(* The dispatcher over two symbols: LiveDataHandler with the SMA strategy
   registered for one symbol and the opening breakout strategy for the
   other, ticks of every shape arriving, and shutdown called from another
   thread.  A worker runs _process_tick for one tick in one step here; the
   interleaving inside on_tick is the subject of the section above.  Every
   submitted tick carries the number of its on_message call. *)

MaxDispatchTicks == 3
Unregistered == "NSE:INFY-EQ"

\* active_strategies: symbol -> the strategy object registered for it
Registry == [s \in Symbols |-> IF s = StratSymbol THEN SMA_NAME ELSE OB_NAME]

DispatchMessages ==
    [symbol : {Some(StratSymbol)}, ltp : {None, Some(0), Some(1000), Some(1020)}, close : {None}]
        \cup [symbol : {Some(StratSymbol)}, ltp : {None}, close : {Some(1000)}]
        \cup [symbol : {Some(s) : s \in (Symbols \ {StratSymbol}) \cup {Unregistered}} \cup {None},
              ltp : {Some(1000)}, close : {None}]

\* datetime.now() in a session opened just before the first candle closes
Now == At(0, 9, 29) + clock

\* a slip that keeps queueing work after shutdown was called
executor_accepts_always(state) == TRUE

\* ThreadPoolExecutor.submit raises RuntimeError once shutdown was called
executor_accepts(state) == state = "open"

\* a slip that lets the exception end the worker
after_exception_dead(raised) == IF raised THEN [WkIdle EXCEPT !.pc = "dead"] ELSE WkIdle

\* the worker after _process_tick: the except clause has logged the
\* exception and the worker is free again
after_exception(raised) == WkIdle

\* a slip that tests the symbol alone
process_tick_guard_symbol_only(msg) ==
    msg.symbol # None /\ msg.symbol[1] \in DOMAIN Registry

\* _process_tick, line 30
process_tick_guard(msg) ==
    /\ msg.symbol # None
    /\ msg.symbol[1] \in DOMAIN Registry
    /\ process_tick_price(msg) # None

\* LiveDataHandler.on_message
DhSubmit ==
    /\ ticks < MaxDispatchTicks
    /\ ticks' = ticks + 1
    /\ clock' = clock + 1
    /\ \E msg \in DispatchMessages :
          LET item == [id |-> ticks + 1, msg |-> msg, timestamp |-> None]
          IN  IF executor_accepts(dh.shut)
              THEN /\ queue' = Append(queue, item)
                   /\ dh' = [dh EXCEPT !.accepted = Append(@, item)]
              ELSE /\ dh' = [dh EXCEPT !.refused = @ \cup {item.id}]
                   /\ UNCHANGED queue
    /\ UNCHANGED <<ledgerVars, callVars, sizingVars, stratVars, wk, session, inst, replay, eng>>

\* a free worker thread takes the oldest work item
DhTake(w) ==
    /\ wk[w].pc = "idle"
    /\ queue # <<>>
    /\ queue' = Tail(queue)
    /\ SetWk(w, [WkIdle EXCEPT !.pc = "process", !.msg = Some(Head(queue))])
    /\ UNCHANGED <<moreVars, ledgerVars, callVars, sizingVars, stratVars, ticks, clock>>

\* _process_tick
DhProcess(w) ==
    /\ wk[w].pc = "process"
    /\ LET item == wk[w].msg[1]
           msg == item.msg
           tick_timestamp == IF item.timestamp # None THEN item.timestamp[1] ELSE Now
           data == [ltp |-> msg.ltp, close |-> msg.close]
       IN  IF ~process_tick_guard(msg)
           THEN /\ dh' = [dh EXCEPT !.finished = @ \cup {item.id}]
                /\ SetWk(w, WkIdle)
                /\ UNCHANGED <<ledgerVars, callVars, stratVars>>
           ELSE IF Registry[msg.symbol[1]] = SMA_NAME
           THEN /\ SmaOnTick(tick_timestamp, data)
                /\ dh' = [dh EXCEPT !.finished = @ \cup {item.id},
                                    !.delivered = Append(@, [id |-> item.id,
                                                             symbol |-> msg.symbol[1],
                                                             strategy |-> SMA_NAME])]
                /\ SetWk(w, WkIdle)
                /\ UNCHANGED ob
           ELSE /\ ObOnTick(tick_timestamp, [mapping |-> TRUE, value |-> tick_price(data)[1]])
                /\ dh' = [dh EXCEPT !.finished = @ \cup {item.id},
                                    !.delivered = Append(@, [id |-> item.id,
                                                             symbol |-> msg.symbol[1],
                                                             strategy |-> OB_NAME]),
                                    !.errors = @ + IF lastTick'[1].raised THEN 1 ELSE 0]
                /\ SetWk(w, after_exception(lastTick'[1].raised))
                /\ UNCHANGED sma
    /\ UNCHANGED <<sizingVars, queue, ticks, clock, session, inst, replay, eng>>

\* LiveDataHandler.shutdown is called: the executor stops accepting work
ShutdownCall ==
    /\ dh.shut = "open"
    /\ dh' = [dh EXCEPT !.shut = "draining", !.cutoff = ticks]
    /\ UNCHANGED <<ledgerVars, callVars, sizingVars, stratVars, liveVars, clock,
                   session, inst, replay, eng>>

\* shutdown(wait=True) returns once the queue is empty and every worker
\* thread has been joined
ShutdownReturn ==
    /\ dh.shut = "draining"
    /\ queue = <<>>
    /\ \A w \in Workers : wk[w].pc = "idle"
    /\ dh' = [dh EXCEPT !.shut = "done"]
    /\ UNCHANGED <<ledgerVars, callVars, sizingVars, stratVars, liveVars, clock,
                   session, inst, replay, eng>>

DispatchNext ==
    \/ DhSubmit
    \/ \E w \in Workers : DhTake(w) \/ DhProcess(w)
    \/ ShutdownCall
    \/ ShutdownReturn

DispatchSpec == Init /\ [][DispatchNext]_vars

\* the deliveries of the tick numbered id
Deliveries(id) == {j \in 1 .. Len(dh.delivered) : dh.delivered[j].id = id}

\* a registered symbol and a positive price under ltp, or else under close
WellFormed(msg) ==
    /\ msg.symbol # None /\ msg.symbol[1] \in DOMAIN Registry
    /\ TruthyNum(tick_price([ltp |-> msg.ltp, close |-> msg.close]))

----------------------------------------------------------------------------
(* DailyBreakoutStrategy: the range of the day's first 15-minute candle, a
   long entry above its high when the range exceeds 1%, an exit at 2%
   profit or 1% loss; replayed on its own over an empty ledger. *)

DU_NAME == "DailyBreakout"
MaxBreakoutTicks == 5
BreakoutTimes ==
    {At(0, 9, 15), At(0, 9, 20), At(0, 9, 30), At(0, 9, 45), At(1, 9, 15), At(1, 9, 30)}
BreakoutPrices == {980, 1000, 1020, 1040}

\* __init__, lines 13-18
DuInit == [_first_candle_start |-> None, _first_high |-> None, _first_low |-> None,
           _trade_taken_today |-> FALSE, _entry_price |-> None, _current_day |-> None]

\* _reset_day, lines 81-89
du_reset_day(st, ts, price) ==
    [st EXCEPT !._first_candle_start = Some(floor_to_candle(ts)),
               !._first_high = Some(price), !._first_low = Some(price),
               !._trade_taken_today = FALSE, !._entry_price = None,
               !._current_day = Some(date(ts))]

\* on_tick, lines 37-76, for a truthy price and a position that is the
\* strategy's own or absent
du_on_tick(st, ts, price, current_qty, cfg) ==
    LET st1 == IF st._current_day = None \/ date(ts) # st._current_day[1]
               THEN du_reset_day(st, ts, price) ELSE st
        quiet(s) == [state |-> s, orders |-> <<>>, closed |-> None]
        high == st1._first_high[1]
        low  == st1._first_low[1]
        qty  == calculate_quantity(cfg, price)
    IN  IF ts < st1._first_candle_start[1] + CandleMinutes
        THEN quiet([st1 EXCEPT !._first_high = Some(Max2(high, price)),
                               !._first_low = Some(Min2(low, price))])
        ELSE IF (high - low) * 100 > low /\ current_qty = 0 /\ ~st1._trade_taken_today
        THEN IF price > high /\ qty > 0
             THEN [state |-> [st1 EXCEPT !._entry_price = Some(price),
                                         !._trade_taken_today = TRUE],
                   orders |-> <<[qty |-> qty, side |-> 1, entry_price |-> None,
                                 exit_reason |-> None, price |-> price]>>,
                   closed |-> None]
             ELSE quiet(st1)
        ELSE IF current_qty > 0 /\ TruthyNum(st1._entry_price)
                  /\ (price * 100 >= st1._entry_price[1] * 102
                        \/ price * 100 <= st1._entry_price[1] * 99)
        THEN [state |-> [st1 EXCEPT !._entry_price = None],
              orders |-> <<[qty |-> Abs(current_qty), side |-> -1,
                            entry_price |-> st1._entry_price,
                            exit_reason |-> Some("SL/TP Hit"), price |-> price]>>,
              closed |-> None]
        ELSE quiet(st1)

BreakoutInit ==
    /\ Init!1 /\ Init!2 /\ Init!3 /\ Init!4 /\ Init!5 /\ Init!6 /\ Init!7
    /\ Init!8 /\ Init!9 /\ Init!10 /\ Init!11 /\ Init!12 /\ Init!13 /\ Init!14
    /\ Init!15 /\ Init!16 /\ Init!17
    /\ inst = [n \in {DU_NAME} |-> DuInit]
    /\ Init!19 /\ Init!20 /\ Init!21

\* run_backtest feeding DailyBreakoutStrategy.on_tick the next row
DuTick ==
    /\ ticks < MaxBreakoutTicks
    /\ \E ts \in BreakoutTimes, p \in BreakoutPrices :
          /\ ts > clock
          /\ clock' = ts
          /\ LET price == tick_price(RowData(Flat(p)))
             IN  InstOnTick(DU_NAME, ts, ~TruthyNum(price) \/ NotMine(DU_NAME),
                            du_on_tick(inst[DU_NAME], ts, price[1], CurrentQty, sizing))
    /\ ticks' = ticks + 1
    /\ UNCHANGED <<sizingVars, sma, ob, queue, wk, session, dh, replay, eng>>

BreakoutNext == DuTick

BreakoutSpec == BreakoutInit /\ [][BreakoutNext]_vars

----------------------------------------------------------------------------
(* The pacing of start_live_simulation, lines 236-262: the locals of the
   simulation thread as it walks the rows.  Delays are in milliseconds,
   the speed multiplier in hundredths, the gaps between rows in seconds. *)

MilliSeconds == 1000
SpeedScale == 100
LargeGap == 300
CapSeconds == 1
MaxPaceTicks == 3

\* -1x, 0x, 0.01x, 0.5x, 1x, 2x and 10x
Speeds == {-100, 0, 1, 50, 100, 200, 1000}

\* the same minute (two symbols), a minute, five minutes, a quarter of an
\* hour and a night between two rows
Gaps == {0, 60, 300, 900, 64800}

\* lines 246-256: sim_delay as it stands when the sleep is computed
sim_delay(gap, speed) ==
    LET historical == gap * MilliSeconds
        capped == IF gap > LargeGap THEN CapSeconds * MilliSeconds ELSE historical
    IN  IF speed <= 0 THEN 0 ELSE (capped * SpeedScale) \div speed

PaceIdle == [pc |-> "idle", speed |-> SpeedScale, previous_sim_timestamp |-> None,
             gap |-> None, sim_delay |-> None]

PaceInit ==
    /\ Init!1 /\ Init!2 /\ Init!3 /\ Init!4 /\ Init!5 /\ Init!6 /\ Init!7
    /\ Init!8 /\ Init!9 /\ Init!10 /\ Init!11 /\ Init!12 /\ Init!13 /\ Init!14
    /\ Init!15 /\ Init!16 /\ Init!17 /\ Init!18 /\ Init!19 /\ Init!20
    /\ eng = [EngInit EXCEPT !.th = [t \in Threads |-> PaceIdle]]

\* start_live_simulation(trackers, start_date, end_date, speed) up to the loop
PaceStart ==
    /\ eng.th["Thread-1"].pc = "idle"
    /\ \E speed \in Speeds :
          eng' = [eng EXCEPT !.th["Thread-1"] = [PaceIdle EXCEPT !.pc = "rows",
                                                                !.speed = speed]]
    /\ UNCHANGED <<ledgerVars, callVars, sizingVars, stratVars, liveVars, session, inst,
                   dh, replay, clock>>

\* one turn of the loop over the rows: the delay before the row, then the row
PaceRow ==
    /\ eng.th["Thread-1"].pc = "rows"
    /\ ticks < MaxPaceTicks
    /\ LET th == eng.th["Thread-1"]
       IN  IF th.previous_sim_timestamp = None
           THEN eng' = [eng EXCEPT !.th["Thread-1"].previous_sim_timestamp = Some(0)]
           ELSE \E gap \in Gaps :
                  eng' = [eng EXCEPT
                            !.th["Thread-1"].previous_sim_timestamp =
                                Some(th.previous_sim_timestamp[1] + gap),
                            !.th["Thread-1"].gap = Some(gap),
                            !.th["Thread-1"].sim_delay = Some(sim_delay(gap, th.speed))]
    /\ ticks' = ticks + 1
    /\ UNCHANGED <<ledgerVars, callVars, sizingVars, stratVars, queue, wk, session, inst,
                   dh, replay, clock>>

PaceNext == PaceStart \/ PaceRow

PaceSpec == PaceInit /\ [][PaceNext]_vars

----------------------------------------------------------------------------
(* NiftySwingBreakoutTrendStrategy: every tick is a bar; an entry in the
   direction of the daily trend when the price leaves the latest swing
   pivot, a stop at the far side of the pivot bar and a target at twice
   the risk.  The two lengths are constructor parameters.  Replayed on its
   own over an empty ledger, which is why a held position always has its
   stop and target. *)

NF_NAME == "Nifty_Swing_Breakout_Trend"
swing_length == 1
daily_sma_length == 2
MaxSwingTicks == 5

SwingTimes ==
    {At(0, 9, 15), At(1, 9, 15), At(1, 9, 20), At(1, 9, 25), At(1, 9, 30), At(2, 9, 15)}

\* one-price candles and two candles with a range
SwingBars ==
    {Flat(980), Flat(1000), Flat(1020), Flat(1040),
     [open |-> Some(1000), high |-> Some(1040), low |-> Some(980), close |-> Some(1000)],
     [open |-> Some(1000), high |-> Some(1020), low |-> Some(960), close |-> Some(1020)]}

\* __init__, lines 13-26
NfInit == [daily_closes |-> <<>>, bars |-> <<>>, entry_price |-> None,
           sl |-> None, tp |-> None]

\* a slip that takes a bar level with a neighbour for a pivot
RECURSIVE nf_get_pivot_high_level(_, _)
nf_get_pivot_high_level(bars, i) ==
    IF Len(bars) < 2 * swing_length + 1 \/ i > Len(bars) - swing_length THEN None
    ELSE IF /\ \A j \in (i - swing_length) .. (i - 1) : bars[i].high >= bars[j].high
            /\ \A j \in (i + 1) .. (i + swing_length) : bars[i].high >= bars[j].high
         THEN Some([index |-> i, value |-> bars[i].high, low |-> bars[i].low])
         ELSE nf_get_pivot_high_level(bars, i + 1)

\* _get_pivot_high, lines 125-140: the scan from position i on (the list
\* is numbered from 1 here, so the scan starts at swing_length + 1)
RECURSIVE nf_get_pivot_high(_, _)
nf_get_pivot_high(bars, i) ==
    IF Len(bars) < 2 * swing_length + 1 \/ i > Len(bars) - swing_length THEN None
    ELSE IF /\ \A j \in (i - swing_length) .. (i - 1) : bars[i].high > bars[j].high
            /\ \A j \in (i + 1) .. (i + swing_length) : bars[i].high > bars[j].high
         THEN Some([index |-> i, value |-> bars[i].high, low |-> bars[i].low])
         ELSE nf_get_pivot_high(bars, i + 1)

\* _get_pivot_low, lines 142-157
RECURSIVE nf_get_pivot_low(_, _)
nf_get_pivot_low(bars, i) ==
    IF Len(bars) < 2 * swing_length + 1 \/ i > Len(bars) - swing_length THEN None
    ELSE IF /\ \A j \in (i - swing_length) .. (i - 1) : bars[i].low < bars[j].low
            /\ \A j \in (i + 1) .. (i + swing_length) : bars[i].low < bars[j].low
         THEN Some([index |-> i, value |-> bars[i].low, high |-> bars[i].high])
         ELSE nf_get_pivot_low(bars, i + 1)

\* a slip that sets the target at the distance of the stop
nf_tp_long_even(price, sl) == price + (price - sl)

\* line 87
nf_tp_long(price, sl) == price + (price - sl) * 2

\* line 97
nf_tp_short(price, sl) == price - (sl - price) * 2

\* on_tick, lines 45-118, for a truthy price and a position that is the
\* strategy's own or absent; bar is the row with the price as its close
nf_on_tick(st, ts, bar, current_qty, cfg) ==
    LET price == bar.close[1]
        bars == Append(st.bars, [high |-> bar.high[1], low |-> bar.low[1], close |-> price])
        n == Len(st.daily_closes)
        daily_closes ==
            IF n = 0 \/ st.daily_closes[n].day # date(ts)
            THEN Append(st.daily_closes, [day |-> date(ts), price |-> price])
            ELSE [st.daily_closes EXCEPT ![n] = [day |-> date(ts), price |-> price]]
        close_prices == LastN([k \in 1 .. Len(daily_closes) |-> daily_closes[k].price],
                              daily_sma_length)
        st1 == [st EXCEPT !.bars = bars, !.daily_closes = daily_closes]
        quiet(s) == [state |-> s, orders |-> <<>>, closed |-> None]
    IN  IF Len(close_prices) < daily_sma_length THEN quiet(st1)
        ELSE
          LET daily_close == close_prices[Len(close_prices)]
              trend_long  == daily_close * Len(close_prices) > Sum(close_prices)
              trend_short == daily_close * Len(close_prices) < Sum(close_prices)
              swing_high == nf_get_pivot_high(bars, swing_length + 1)
              swing_low  == nf_get_pivot_low(bars, swing_length + 1)
              qty == calculate_quantity(cfg, price)
              entry(side, sl, tp) ==
                  [state |-> [st1 EXCEPT !.entry_price = Some(price), !.sl = Some(sl),
                                         !.tp = Some(tp)],
                   orders |-> <<[qty |-> qty, side |-> side, entry_price |-> None,
                                 exit_reason |-> None, price |-> price]>>,
                   closed |-> None]
              exit(side) ==
                  [state |-> [st1 EXCEPT !.entry_price = None, !.sl = None, !.tp = None],
                   orders |-> <<[qty |-> Abs(current_qty), side |-> side,
                                 entry_price |-> st1.entry_price,
                                 exit_reason |-> Some("SL/TP Hit"), price |-> price]>>,
                   closed |-> None]
          IN  IF current_qty = 0
              THEN IF trend_long /\ swing_high # None /\ price > swing_high[1].value
                   THEN IF qty > 0
                        THEN entry(1, swing_high[1].low, nf_tp_long(price, swing_high[1].low))
                        ELSE quiet(st1)
                   ELSE IF trend_short /\ swing_low # None /\ price < swing_low[1].value
                   THEN IF qty > 0
                        THEN entry(-1, swing_low[1].high, nf_tp_short(price, swing_low[1].high))
                        ELSE quiet(st1)
                   ELSE quiet(st1)
              ELSE IF current_qty > 0
              THEN IF price <= st1.sl[1] \/ price >= st1.tp[1] THEN exit(-1) ELSE quiet(st1)
              ELSE IF price >= st1.sl[1] \/ price <= st1.tp[1] THEN exit(1) ELSE quiet(st1)

SwingInit ==
    /\ Init!1 /\ Init!2 /\ Init!3 /\ Init!4 /\ Init!5 /\ Init!6 /\ Init!7
    /\ Init!8 /\ Init!9 /\ Init!10 /\ Init!11 /\ Init!12 /\ Init!13 /\ Init!14
    /\ Init!15 /\ Init!16 /\ Init!17
    /\ inst = [n \in {NF_NAME} |-> NfInit]
    /\ Init!19 /\ Init!20 /\ Init!21

\* run_backtest feeding NiftySwingBreakoutTrendStrategy.on_tick the next row
NfTick ==
    /\ ticks < MaxSwingTicks
    /\ \E ts \in SwingTimes, bar \in SwingBars :
          /\ ts > clock
          /\ clock' = ts
          /\ InstOnTick(NF_NAME, ts, ~TruthyNum(bar.close) \/ NotMine(NF_NAME),
                        nf_on_tick(inst[NF_NAME], ts, bar, CurrentQty, sizing))
    /\ ticks' = ticks + 1
    /\ UNCHANGED <<sizingVars, sma, ob, queue, wk, session, dh, replay, eng>>

SwingNext == NfTick

SwingSpec == SwingInit /\ [][SwingNext]_vars

----------------------------------------------------------------------------
(* The two strategies of StratSpec on an empty ledger, sized by quantity or
   by amount; OpeningBreakoutStrategy is given the price as a float, the
   way its signature declares it. *)

MaxExitTicks == 4
ExitSizings == {[sizing_type |-> "Quantity", sizing_value |-> 1],
                [sizing_type |-> "Amount", sizing_value |-> 2]}

ExitInit ==
    /\ Init!1 /\ Init!2 /\ Init!3 /\ Init!4 /\ Init!5 /\ Init!6 /\ Init!7
    /\ sizing \in ExitSizings
    /\ Init!9 /\ Init!10 /\ Init!11 /\ Init!12 /\ Init!13 /\ Init!14
    /\ Init!15 /\ Init!16 /\ Init!17 /\ Init!18 /\ Init!19 /\ Init!20 /\ Init!21

ExitSmaTick ==
    /\ ticks < MaxExitTicks
    /\ \E ts \in TickTimes, p \in TickPrices :
          /\ ts >= clock
          /\ clock' = ts
          /\ SmaOnTick(ts, [ltp |-> Some(p), close |-> None])
    /\ ticks' = ticks + 1
    /\ UNCHANGED <<moreVars, sizingVars, ob, queue, wk>>

ExitObTick ==
    /\ ticks < MaxExitTicks
    /\ \E ts \in TickTimes, p \in TickPrices :
          /\ ts >= clock
          /\ clock' = ts
          /\ ObOnTick(ts, [mapping |-> FALSE, value |-> p])
    /\ ticks' = ticks + 1
    /\ UNCHANGED <<moreVars, sizingVars, sma, queue, wk>>

ExitNext == ExitSmaTick \/ ExitObTick

ExitSpec == ExitInit /\ [][ExitNext]_vars

----------------------------------------------------------------------------
(* The same two strategies under sizings that yield no quantity: an amount
   below the price, a sizing type _calculate_quantity does not know, a
   price that is not positive.  sized is the quantity the sizing gives at
   the price of the latest tick. *)

MaxQtyTicks == 4
QtySizings == {[sizing_type |-> "Quantity", sizing_value |-> 1],
               [sizing_type |-> "Amount", sizing_value |-> 1],
               [sizing_type |-> "Percentage", sizing_value |-> 1]}
QtyPrices == {-1000, 980, 1000, 1020}

QtyInit ==
    /\ Init!1 /\ Init!2 /\ Init!3 /\ Init!4 /\ Init!5 /\ Init!6 /\ Init!7
    /\ sizing \in QtySizings
    /\ Init!9 /\ Init!10 /\ Init!11 /\ Init!12 /\ Init!13 /\ Init!14
    /\ Init!15 /\ Init!16 /\ Init!17 /\ Init!18 /\ Init!19 /\ Init!20 /\ Init!21

QtySmaTick ==
    /\ ticks < MaxQtyTicks
    /\ \E ts \in TickTimes, p \in QtyPrices :
          /\ ts >= clock
          /\ clock' = ts
          /\ SmaOnTick(ts, [ltp |-> Some(p), close |-> None])
          /\ sized' = Some([price |-> p, quantity |-> calculate_quantity(sizing, p)])
    /\ ticks' = ticks + 1
    /\ UNCHANGED <<moreVars, sizing, ob, queue, wk>>

QtyObTick ==
    /\ ticks < MaxQtyTicks
    /\ \E ts \in TickTimes, p \in QtyPrices :
          /\ ts >= clock
          /\ clock' = ts
          /\ ObOnTick(ts, [mapping |-> FALSE, value |-> p])
          /\ sized' = Some([price |-> p, quantity |-> calculate_quantity(sizing, p)])
    /\ ticks' = ticks + 1
    /\ UNCHANGED <<moreVars, sizing, sma, queue, wk>>

QtyNext == QtySmaTick \/ QtyObTick

QtySpec == QtyInit /\ [][QtyNext]_vars

----------------------------------------------------------------------------
(* TradingEngine: start_live_session, start_live_simulation, run_backtest
   and stop_session called from the GUI's threads.  A call is a sequence of
   steps, one per stretch of code between two accesses to the engine's
   shared attributes, and the steps of two threads interleave.  The
   strategies are SMACrossoverStrategy instances; a tick handed to
   LiveDataHandler.on_message is run through on_tick in the same step, the
   worker pool being the subject of the sections above. *)

MaxEngineCalls == 2
MaxFeedTicks == 2

UNKNOWN_NAME == "Not A Strategy"

\* self.strategies_map: the STRATEGY_NAME of every class _load_strategies found
strategies_map == StrategyNames

Tracker(symbol, strategy_name) == [symbol |-> symbol, strategy_name |-> strategy_name]

\* the tracker lists the GUI passes: one tracker, two symbols, the same
\* symbol twice, an unknown strategy next to a known one, and only an
\* unknown one
TrackerLists ==
    {<<Tracker("NSE:SBIN-EQ", SMA_NAME)>>,
     <<Tracker("NSE:SBIN-EQ", SMA_NAME), Tracker("NSE:TCS-EQ", SMA_NAME)>>,
     <<Tracker("NSE:SBIN-EQ", SMA_NAME), Tracker("NSE:SBIN-EQ", SMA_NAME)>>,
     <<Tracker("NSE:SBIN-EQ", UNKNOWN_NAME), Tracker("NSE:TCS-EQ", SMA_NAME)>>,
     <<Tracker("NSE:SBIN-EQ", UNKNOWN_NAME)>>}

\* what fetch_data returns for a symbol: no candle, or three closes that
\* make the crossover strategy enter
HistoricalData == {<<>>, <<1000, 1000, 1020>>}
FeedPrices == {1000, 1020}

\* a slip that gives up the tracker list at the first unknown strategy
ValidTrackers_until_unknown(trackers) ==
    {k \in 1 .. Len(trackers) :
        \A j \in 1 .. k : trackers[j].strategy_name \in strategies_map}

\* the trackers whose strategy_name is in strategies_map
ValidTrackers(trackers) ==
    {k \in 1 .. Len(trackers) : trackers[k].strategy_name \in strategies_map}

\* lines 130-147 and 192-211: active_strategies[symbol] = strategy_class(...)
\* for every valid tracker in turn, so that the entry of a symbol is the
\* instance of the last valid tracker naming it
build_strategies(call, trackers, pos) ==
    LET valid == ValidTrackers(trackers)
        symbols == {trackers[k].symbol : k \in valid}
        last(s) == CHOOSE k \in valid :
                     /\ trackers[k].symbol = s
                     /\ \A j \in valid : trackers[j].symbol = s => j <= k
    IN  [s \in symbols |->
           [id |-> <<call, last(s)>>, state |-> sma_new(get_open_position(pos, s))]]

\* the log lines of the tracker loop
build_warnings(call, trackers) ==
    {[call |-> call, text |-> "Warning: Strategy not found.", tracker |-> k] :
        k \in (1 .. Len(trackers)) \ ValidTrackers(trackers)}

LogLine(call, text) == [call |-> call, text |-> text, tracker |-> 0]

\* lines 221-232: the frames of the symbols concatenated and sorted by
\* their index; every frame carries the same timestamps
RECURSIVE combined_data(_, _, _)
combined_data(symbols, data, n) ==
    IF n > Len(data) THEN <<>>
    ELSE LET RECURSIVE rows(_)
             rows(S) == IF S = {} THEN <<>>
                        ELSE LET s == CHOOSE x \in S : TRUE
                             IN  <<[symbol |-> s, close |-> data[n], n |-> n]>>
                                   \o rows(S \ {s})
         IN  rows(symbols) \o combined_data(symbols, data, n + 1)

\* SMACrossoverStrategy.on_tick of an instance held by a handler or by
\* run_backtest: its new state and the order it places, if any
eng_on_tick(st, symbol, price) ==
    LET position_details == get_open_position(positions, symbol)
        current_qty == IF position_details # None
                       THEN position_details[1].quantity ELSE 0
        sig == sma_signal(st, price, current_qty, DefaultSizing)
    IN  IF sma_not_mine(position_details)
        THEN [state |-> st, order |-> None]
        ELSE IF sig.order = None THEN sig
        ELSE [state |-> [sig.state EXCEPT !.entry_price = sig.order[1].then],
              order |-> sig.order]

\* the order of an on_tick, placed on the OrderManager
EngPlace(symbol, res, ts) ==
    IF res.order = None
    THEN UNCHANGED <<ledgerVars, callVars>>
    ELSE place_order(symbol, res.order[1].qty, res.order[1].side, Some(SMA_NAME),
                     res.order[1].entry_price, res.order[1].exit_reason,
                     Some(res.order[1].price), ts, IoOk)

EngOther == <<clock, sizingVars, stratVars, liveVars, session, inst, dh, replay>>

\* the record of a call that has just begun; order_manager is the
\* OrderManager the call made, if it made one, fetched whether fetch_data
\* has answered
NewCall(op, trackers, name, data) ==
    [op |-> op, trackers |-> trackers, name |-> name, data |-> data,
     failed |-> FALSE, outcome |-> "", returned |-> FALSE, sent |-> 0,
     order_manager |-> 0, fetched |-> FALSE, stopped |-> FALSE, after |-> 0]

Idle(t) == eng.th[t].pc = "idle" /\ Len(eng.hist) < MaxEngineCalls

\* a thread enters a call: its first step is authenticate_and_initialize
Enter(t, rec) ==
    eng' = [eng EXCEPT !.hist = Append(@, rec),
                       !.th[t] = [ThIdle EXCEPT !.pc = "auth", !.call = Len(eng.hist) + 1]]

\* the call of thread t returns (or is left by an exception)
Return(e, t, outcome) ==
    [e EXCEPT !.hist[eng.th[t].call].outcome = IF @ = "" THEN outcome ELSE @,
              !.hist[eng.th[t].call].returned = TRUE,
              !.th[t] = ThIdle]

CallOf(t) == eng.hist[eng.th[t].call]

StartLiveSession(t) ==
    /\ Idle(t)
    /\ \E trackers \in TrackerLists : Enter(t, NewCall("start_live_session", trackers, "", <<>>))
    /\ UNCHANGED <<ledgerVars, callVars, EngOther>>

StartLiveSimulation(t) ==
    /\ Idle(t)
    /\ \E trackers \in TrackerLists, data \in HistoricalData :
          Enter(t, NewCall("start_live_simulation", trackers, "", data))
    /\ UNCHANGED <<ledgerVars, callVars, EngOther>>

\* run_backtest, lines 305-308: an unknown strategy ends the call at once
RunBacktest(t) ==
    /\ Idle(t)
    /\ \E name \in {SMA_NAME, UNKNOWN_NAME}, data \in HistoricalData :
          LET rec == NewCall("run_backtest", <<>>, name, data)
              call == Len(eng.hist) + 1
          IN  IF name \in strategies_map
              THEN Enter(t, rec)
              ELSE eng' = [eng EXCEPT
                     !.hist = Append(@, [rec EXCEPT !.outcome = "unknown strategy",
                                                    !.returned = TRUE]),
                     !.log = @ \cup {LogLine(call, "Backtest failed: Strategy not found.")}]
    /\ UNCHANGED <<ledgerVars, callVars, EngOther>>

\* the step that follows a successful authenticate_and_initialize
AfterAuth(op) ==
    IF op = "start_live_session" THEN "wire"
    ELSE IF op = "start_live_simulation" THEN "line189"
    ELSE "fetch_data"

\* a slip that goes on whatever authenticate_and_initialize returned
auth_gate_open(ok) == TRUE

\* lines 126, 182 and 310: if not self.authenticate_and_initialize(): return
auth_gate(ok) == ok

\* authenticate_and_initialize, line 71
AuthCheck(t) ==
    /\ eng.th[t].pc = "auth"
    /\ eng' = [eng EXCEPT !.th[t].pc = IF eng.fyers THEN AfterAuth(CallOf(t).op)
                                       ELSE "token"]
    /\ UNCHANGED <<ledgerVars, callVars, EngOther>>

\* _authenticate, lines 50-67: the token is there, or the broker grants or
\* refuses one; a refusal makes authenticate_and_initialize return False
AuthToken(t) ==
    /\ eng.th[t].pc = "token"
    /\ \E granted \in BOOLEAN :
          LET ok == eng.access_token \/ granted
              call == eng.th[t].call
              failed == [eng EXCEPT
                           !.hist[call].failed = TRUE,
                           !.log = @ \cup {LogLine(call, "Authentication failed.")}]
          IN  IF ok
              THEN eng' = [eng EXCEPT !.access_token = TRUE, !.th[t].pc = "init"]
              ELSE IF auth_gate(ok)
              THEN eng' = [failed EXCEPT !.th[t].pc = AfterAuth(CallOf(t).op)]
              ELSE eng' = Return(failed, t, "authentication failed")
    /\ UNCHANGED <<ledgerVars, callVars, EngOther>>

\* authenticate_and_initialize, lines 75-80: OrderManager.__init__ loads
\* the stored ledger
AuthInit(t) ==
    /\ eng.th[t].pc = "init"
    /\ eng' = [eng EXCEPT !.fyers = TRUE, !.oms = @ + 1, !.order_manager = eng.oms + 1,
                          !.hist[eng.th[t].call].order_manager = eng.oms + 1,
                          !.th[t].pc = AfterAuth(CallOf(t).op)]
    /\ positions' = load_positions(posFile, "ok")
    /\ UNCHANGED <<posFile, histFile, callVars, EngOther>>

\* LiveDataHandler.on_message of handler h for a tick of a symbol:
\* ThreadPoolExecutor.submit raises once the handler was shut down; a
\* symbol with no strategy is dropped; otherwise the instance's on_tick runs
Refused(h) == h # 0 /\ eng.ldh[h].shut
Delivered(h, symbol) == h # 0 /\ ~eng.ldh[h].shut /\ symbol \in DOMAIN eng.ldh[h].active

\* the engine after handler h has run the tick through its instance
AfterTick(e, h, symbol, res) ==
    [e EXCEPT !.ldh[h].active[symbol].state = res.state,
              !.got = @ \cup {eng.ldh[h].active[symbol].id}]

\* start_live_session, lines 128-154
LiveWire(t) ==
    /\ eng.th[t].pc = "wire"
    /\ LET call == eng.th[t].call
           trackers == CallOf(t).trackers
           active == build_strategies(call, trackers, positions)
           built == [eng EXCEPT
                       !.instances = @ \cup {<<call, k>> : k \in ValidTrackers(trackers)},
                       !.log = @ \cup build_warnings(call, trackers)]
       IN  IF DOMAIN active = {}
           THEN eng' = Return([built EXCEPT !.log = @ \cup
                                  {LogLine(call, "No valid strategies to run. Stopping.")}],
                              t, "no valid strategies")
           ELSE eng' = Return([built EXCEPT
                                  !.ldh = Append(@, [call |-> call, active |-> active,
                                                     shut |-> FALSE]),
                                  !.live_data_handler = Len(eng.ldh) + 1,
                                  !.sockets = Append(@, [call |-> call, state |-> "open"]),
                                  !.fyers_socket = Len(eng.sockets) + 1],
                              t, "session started")
    /\ UNCHANGED <<ledgerVars, callVars, EngOther>>

\* the socket's thread: _on_live_data with a message of an open socket
LiveFeed ==
    /\ eng.feed < MaxFeedTicks
    /\ \E k \in 1 .. Len(eng.sockets), symbol \in Symbols, ltp \in FeedPrices :
          /\ eng.sockets[k].state = "open"
          /\ LET h == eng.live_data_handler
                 fed == [eng EXCEPT !.feed = @ + 1]
             IN  IF Delivered(h, symbol)
                 THEN LET res == eng_on_tick(eng.ldh[h].active[symbol].state, symbol, ltp)
                      IN  /\ eng' = AfterTick(fed, h, symbol, res)
                          /\ EngPlace(symbol, res, None)
                 ELSE /\ eng' = fed
                      /\ UNCHANGED <<ledgerVars, callVars>>
    /\ UNCHANGED EngOther

\* start_live_simulation, line 189
SimRunning(t) ==
    /\ eng.th[t].pc = "line189"
    /\ eng' = [eng EXCEPT !._simulation_running = TRUE, !.th[t].pc = "line190"]
    /\ UNCHANGED <<ledgerVars, callVars, EngOther>>

\* start_live_simulation, line 190
SimFlagReset(t) ==
    /\ eng.th[t].pc = "line190"
    /\ eng' = [eng EXCEPT !._stop_simulation_flag = FALSE, !.th[t].pc = "build"]
    /\ UNCHANGED <<ledgerVars, callVars, EngOther>>

\* start_live_simulation, lines 192-218
SimBuild(t) ==
    /\ eng.th[t].pc = "build"
    /\ LET call == eng.th[t].call
           trackers == CallOf(t).trackers
           active == build_strategies(call, trackers, positions)
           built == [eng EXCEPT
                       !.instances = @ \cup {<<call, k>> : k \in ValidTrackers(trackers)},
                       !.log = @ \cup build_warnings(call, trackers)]
       IN  IF DOMAIN active = {}
           THEN eng' = Return([built EXCEPT !.log = @ \cup
                                  {LogLine(call, "No valid strategies to run. Stopping.")}],
                              t, "no valid strategies")
           ELSE eng' = [built EXCEPT
                          !.ldh = Append(@, [call |-> call, active |-> active,
                                             shut |-> FALSE]),
                          !.live_data_handler = Len(eng.ldh) + 1,
                          !.th[t].pc = "fetch",
                          !.th[t].rows = combined_data(DOMAIN active, CallOf(t).data, 1)]
    /\ UNCHANGED <<ledgerVars, callVars, EngOther>>

\* a slip that takes an empty result for data
no_data_never(rows) == FALSE

\* lines 229 and 318: if not all_data, if historical_data.empty
no_data(rows) == rows = <<>>

\* start_live_simulation, lines 220-236
SimFetch(t) ==
    /\ eng.th[t].pc = "fetch"
    /\ LET call == eng.th[t].call
           fetched == [eng EXCEPT !.hist[call].fetched = TRUE]
       IN  IF no_data(eng.th[t].rows)
           THEN eng' = [fetched EXCEPT
                          !.log = @ \cup {LogLine(call,
                                     "Live simulation finished: No historical data found.")},
                          !.hist[call].outcome = "no data",
                          !.th[t].pc = "finish"]
           ELSE eng' = [fetched EXCEPT !.th[t].pc = "check", !.th[t].i = 1]
    /\ UNCHANGED <<ledgerVars, callVars, EngOther>>

\* the head of the loop and the wait, lines 238-274: the rows are used up,
\* or the flag is seen raised, or the row goes on to be dispatched
SimCheck(t) ==
    /\ eng.th[t].pc = "check"
    /\ LET call == eng.th[t].call
       IN  IF eng.th[t].i > Len(eng.th[t].rows)
           THEN eng' = [eng EXCEPT
                          !.log = @ \cup {LogLine(call, "Live simulation finished.")},
                          !.hist[call].outcome = "finished",
                          !.th[t].pc = "finish"]
           ELSE IF eng._stop_simulation_flag
           THEN eng' = [eng EXCEPT
                          !.log = @ \cup {LogLine(call, "Live simulation stopped by user."),
                                          LogLine(call, "Live simulation finished.")},
                          !.hist[call].outcome = "stopped",
                          !.th[t].pc = "finish"]
           ELSE eng' = [eng EXCEPT !.th[t].pc = "dispatch"]
    /\ UNCHANGED <<ledgerVars, callVars, EngOther>>

\* lines 277-280: _on_live_data hands the row to the handler the engine
\* holds at that moment; an exception of on_message leaves the call
SimDispatch(t) ==
    /\ eng.th[t].pc = "dispatch"
    /\ LET call == eng.th[t].call
           row == eng.th[t].rows[eng.th[t].i]
           h == eng.live_data_handler
           sent == [eng EXCEPT !.th[t].pc = "check", !.th[t].i = @ + 1,
                               !.hist[call].sent = @ + 1,
                               !.hist[call].after = IF CallOf(t).stopped THEN @ + 1 ELSE @]
       IN  IF Refused(h)
           THEN /\ eng' = Return(eng, t, "raised")
                /\ UNCHANGED <<ledgerVars, callVars>>
           ELSE IF Delivered(h, row.symbol)
           THEN LET res == eng_on_tick(eng.ldh[h].active[row.symbol].state,
                                       row.symbol, row.close)
                IN  /\ eng' = AfterTick(sent, h, row.symbol, res)
                    /\ EngPlace(row.symbol, res, Some(At(0, 9, 30) + row.n))
           ELSE /\ eng' = sent
                /\ UNCHANGED <<ledgerVars, callVars>>
    /\ UNCHANGED EngOther

\* start_live_simulation, lines 283-288
SimFinish(t) ==
    /\ eng.th[t].pc = "finish"
    /\ LET h == eng.live_data_handler
           down == IF h # 0 THEN [eng EXCEPT !.ldh[h].shut = TRUE] ELSE eng
       IN  eng' = Return([down EXCEPT !._simulation_running = FALSE,
                                      !._stop_simulation_flag = FALSE],
                         t, "finished")
    /\ UNCHANGED <<ledgerVars, callVars, EngOther>>

\* run_backtest, lines 314-329
BacktestFetch(t) ==
    /\ eng.th[t].pc = "fetch_data"
    /\ LET call == eng.th[t].call
           rows == combined_data({StratSymbol}, CallOf(t).data, 1)
           fetched == [eng EXCEPT !.hist[call].fetched = TRUE]
       IN  IF no_data(rows)
           THEN eng' = Return([fetched EXCEPT !.log = @ \cup
                                 {LogLine(call, "Backtest finished: No historical data found.")}],
                              t, "no data")
           ELSE eng' = [fetched EXCEPT
                          !.instances = @ \cup {<<call, 1>>},
                          !.th[t].pc = "loop", !.th[t].i = 1, !.th[t].rows = rows,
                          !.th[t].strategy_instance =
                              Some(sma_new(get_open_position(positions, StratSymbol)))]
    /\ UNCHANGED <<ledgerVars, callVars, EngOther>>

\* run_backtest, lines 331-333: one row through on_tick, or the end
BacktestTick(t) ==
    /\ eng.th[t].pc = "loop"
    /\ LET call == eng.th[t].call
           i == eng.th[t].i
       IN  IF i > Len(eng.th[t].rows)
           THEN /\ eng' = Return([eng EXCEPT !.log = @ \cup
                                     {LogLine(call, "Backtest finished.")}],
                                  t, "finished")
                /\ UNCHANGED <<ledgerVars, callVars>>
           ELSE LET row == eng.th[t].rows[i]
                    res == eng_on_tick(eng.th[t].strategy_instance[1], row.symbol, row.close)
                IN  /\ eng' = [eng EXCEPT !.th[t].i = @ + 1,
                                          !.th[t].strategy_instance = Some(res.state),
                                          !.hist[call].sent = @ + 1,
                                          !.got = @ \cup {<<call, 1>>}]
                    /\ EngPlace(row.symbol, res, Some(At(0, 9, 30) + row.n))
    /\ UNCHANGED EngOther

\* the simulations that are between line 189 and line 287
InSimulation(t) ==
    eng.th[t].pc \in {"line190", "build", "fetch", "check", "dispatch", "finish"}

\* stop_session, lines 290-301
StopSession(t) ==
    /\ Idle(t)
    /\ LET call == Len(eng.hist) + 1
           rec == [NewCall("stop_session", <<>>, "", <<>>) EXCEPT !.returned = TRUE]
           h == eng.live_data_handler
           k == eng.fyers_socket
           begun == [eng EXCEPT !.hist = Append(@, rec)]
       IN  IF eng._simulation_running
           THEN eng' = [begun EXCEPT
                          !._stop_simulation_flag = TRUE,
                          !.log = @ \cup {LogLine(call, "Stop signal sent to live simulation.")},
                          !.hist = [c \in DOMAIN @ |->
                                      IF \E u \in Threads : InSimulation(u) /\ eng.th[u].call = c
                                      THEN [@[c] EXCEPT !.stopped = TRUE] ELSE @[c]]]
           ELSE LET down == IF h # 0 THEN [begun EXCEPT !.ldh[h].shut = TRUE] ELSE begun
                    closed == IF k # 0 THEN [down EXCEPT !.sockets[k].state = "closed"]
                              ELSE down
                IN  eng' = [closed EXCEPT !.log = @ \cup {LogLine(call, "Session stopped.")}]
    /\ UNCHANGED <<ledgerVars, callVars, EngOther>>

EngineNext ==
    \/ \E t \in Threads : StartLiveSession(t)
    \/ \E t \in Threads : StartLiveSimulation(t)
    \/ \E t \in Threads : RunBacktest(t)
    \/ \E t \in Threads : StopSession(t)
    \/ \E t \in Threads : AuthCheck(t)
    \/ \E t \in Threads : AuthToken(t)
    \/ \E t \in Threads : AuthInit(t)
    \/ \E t \in Threads : LiveWire(t)
    \/ LiveFeed
    \/ \E t \in Threads : SimRunning(t)
    \/ \E t \in Threads : SimFlagReset(t)
    \/ \E t \in Threads : SimBuild(t)
    \/ \E t \in Threads : SimFetch(t)
    \/ \E t \in Threads : SimCheck(t)
    \/ \E t \in Threads : SimDispatch(t)
    \/ \E t \in Threads : SimFinish(t)
    \/ \E t \in Threads : BacktestFetch(t)
    \/ \E t \in Threads : BacktestTick(t)

EngineSpec == Init /\ [][EngineNext]_vars

----------------------------------------------------------------------------
(* C1: after every call of a single caller, a symbol whose signed sum of
   qty*side is 0 has no ledger entry, any other symbol has an entry whose
   quantity is that sum, and no entry holds quantity 0. *)
C1_ZeroCrossing ==
    /\ \A s \in Symbols :
          IF netQty[s] = 0
          THEN s \notin DOMAIN positions
          ELSE s \in DOMAIN positions /\ positions[s].quantity = netQty[s]
    /\ \A s \in DOMAIN positions : positions[s].quantity # 0

\* a symbol was traded at least twice and its sum is back at 0, while the
\* other symbol holds a position
C1_Witness ==
    \E s \in Symbols, t \in Symbols :
       /\ s # t
       /\ Len(SelectSeq(histFile, LAMBDA r : r.symbol = s)) >= 2
       /\ netQty[s] = 0 /\ s \notin DOMAIN positions
       /\ netQty[t] # 0 /\ t \in DOMAIN positions

(* C5: an order on a symbol that has a position and keeps one leaves the
   position's entry_price as it was; a position that comes into being has
   the entry_price the creating order passed as its price. *)
C5_EntryPriceSticky ==
    [][\A s \in Symbols :
         /\ (s \in DOMAIN positions /\ s \in DOMAIN positions')
               => positions'[s].entry_price = positions[s].entry_price
         /\ (s \notin DOMAIN positions /\ s \in DOMAIN positions')
               => /\ lastCall'[1].symbol = s
                  /\ positions'[s].entry_price = lastCall'[1].price]_vars

\* the latest order adjusted a position at a price other than its entry price
C5_Witness ==
    /\ lastCall # None
    /\ lastCall[1].symbol \in DOMAIN positions
    /\ Len(SelectSeq(histFile, LAMBDA r : r.symbol = lastCall[1].symbol)) >= 2
    /\ positions[lastCall[1].symbol].entry_price # lastCall[1].price

\* the P&L of the latest call as the specification words it
ExactPnl(c) ==
    IF c.side = -1 THEN (c.price[1] - c.entry_price[1]) * c.qty
    ELSE (c.entry_price[1] - c.price[1]) * c.qty

LastRecord == histFile[Len(histFile)]

(* C6 as stated: with exit_reason, entry_price and price all present the
   journal's pnl is (price - entry_price) * qty for a sell and
   (entry_price - price) * qty for a buy; without an exit_reason the record
   has pnl 0 and reason "Entry". *)
C6_PnlAsStated ==
    lastCall # None =>
       /\ (lastCall[1].exit_reason # None /\ lastCall[1].entry_price # None
             /\ lastCall[1].price # None) => LastRecord.pnl = ExactPnl(lastCall[1])
       /\ lastCall[1].exit_reason = None
             => (LastRecord.pnl = 0 /\ LastRecord.reason = "Entry")

(* C6 amended: with a non-empty exit_reason and non-zero entry_price and
   price the journal's pnl is that product rounded to two decimals and the
   reason is the exit_reason; when any of the three is absent, empty or zero
   the pnl is 0; with no or an empty exit_reason the reason is "Entry". *)
C6_PnlRounded ==
    lastCall # None =>
       IF TruthyStr(lastCall[1].exit_reason) /\ TruthyNum(lastCall[1].entry_price)
             /\ TruthyNum(lastCall[1].price)
       THEN /\ LastRecord.pnl % Cent = 0
            /\ 2 * Abs(LastRecord.pnl - ExactPnl(lastCall[1])) <= Cent
            /\ LastRecord.reason = lastCall[1].exit_reason[1]
       ELSE /\ LastRecord.pnl = 0
            /\ ~TruthyStr(lastCall[1].exit_reason) => LastRecord.reason = "Entry"

\* a short exit (a buy) at a profit whose product is not a whole cent
C6_Witness ==
    /\ lastCall # None
    /\ lastCall[1].side = 1
    /\ TruthyStr(lastCall[1].exit_reason) /\ TruthyNum(lastCall[1].entry_price)
    /\ TruthyNum(lastCall[1].price)
    /\ LastRecord.pnl > 0
    /\ LastRecord.pnl # ExactPnl(lastCall[1])

(* C7: _calculate_quantity returns sizing_value for "Quantity" and
   floor(sizing_value / price) for "Amount" when price > 0 (0 when the price
   exceeds the amount), and 0 when price <= 0 or the type is another. *)
C7_SizingCorrect ==
    sized # None =>
       LET p == sized[1].price
           q == sized[1].quantity
           amount == sizing.sizing_value * PriceScale
       IN  /\ (p > 0 /\ sizing.sizing_type = "Quantity") => q = sizing.sizing_value
           /\ (p > 0 /\ sizing.sizing_type = "Amount")
                 => (q >= 0 /\ q * p <= amount /\ amount < (q + 1) * p)
           /\ (p > amount /\ sizing.sizing_type = "Amount") => q = 0
           /\ (p <= 0 \/ sizing.sizing_type \notin {"Quantity", "Amount"}) => q = 0

\* an amount that buys more than one share and leaves a remainder
C7_Witness ==
    /\ sized # None
    /\ sizing.sizing_type = "Amount"
    /\ sized[1].quantity >= 2
    /\ sized[1].quantity * sized[1].price < sizing.sizing_value * PriceScale

(* C8: every place_order call whose history write succeeds leaves the stored
   history equal to the history before the call with one record appended,
   also when reading the stored history fails. *)
C8_AppendOnly ==
    [][(calls' = calls + 1 /\ lastCall'[1].io.histWrite = "ok")
         => /\ Len(histFile') = Len(histFile) + 1
            /\ SubSeq(histFile', 1, Len(histFile)) = histFile]_vars

(* C10: when a place_order call has returned and none of its storage writes
   failed, the stored positions equal the whole in-memory ledger. *)
C10_StoreMatchesLedger ==
    (lastCall # None /\ lastCall[1].io.posWrite = "ok"
       /\ lastCall[1].io.histWrite = "ok") => posFile = positions

\* two positions are open and stored after a call whose writes succeeded
C10_Witness ==
    /\ lastCall # None
    /\ lastCall[1].io.posWrite = "ok" /\ lastCall[1].io.histWrite = "ok"
    /\ DOMAIN positions = Symbols
    /\ posFile = positions

(* C4: an on_tick invocation made while the ledger holds a position on the
   strategy's symbol under another strategy's name places no order. *)
C4_OwnershipExclusion ==
    (lastTick # None /\ lastTick[1].foreign) => lastTick[1].orders = 0

(* C2: once all concurrent place_order calls have returned, each symbol's
   ledger quantity is the sum of qty*side over the calls made for it. *)
C2_NoLostUpdate ==
    AllReturned => \A s \in Symbols : get_position(positions, s) = netQty[s]

(* C3: in live dispatch a strategy never places two entry orders for the
   symbol without an exit order between them, and never places an entry
   while the ledger holds a position for the symbol. *)
C3_NoDuplicateEntry ==
    /\ \A i \in 1 .. Len(placed) : placed[i].kind = "entry" => ~placed[i].held
    /\ \A i \in 1 .. Len(placed) - 1 :
          ~(placed[i].kind = "entry" /\ placed[i + 1].kind = "entry")

(* C9: once all concurrent place_order calls have returned, the journal
   holds one record per call. *)
C9_OneRecordPerCall == AllReturned => Len(histFile) = calls

(* C11: a place_order call whose write of the positions store or of the
   history store fails still returns with the post-order state in memory
   (every symbol's ledger quantity is the sum over all calls made, failed
   writes included, so later calls computed from it) and with an error line
   logged for each failed write. *)
C11_WriteFailureKeepsMemory ==
    lastCall # None =>
       /\ \A s \in Symbols : get_position(positions, s) = netQty[s]
       /\ lastCall[1].io.posWrite = "fail"
             => "Error saving positions" \in lastCall[1].logged
       /\ lastCall[1].io.histWrite = "fail"
             => "Error saving trade history" \in lastCall[1].logged

\* two calls on one symbol whose writes all failed: the second built on the
\* first in memory while the store still has nothing
C11_Witness ==
    /\ lastCall # None
    /\ lastCall[1].io.posWrite = "fail" /\ lastCall[1].io.histWrite = "fail"
    /\ lastCall[1].symbol \in DOMAIN positions
    /\ Abs(positions[lastCall[1].symbol].quantity) = 2
    /\ posFile = <<>> /\ histFile = <<>>

(* C12: when no write of the positions store failed and the store can be
   read, a new OrderManager constructed on the store holds the ledger the
   previous one held in memory: same symbols, quantities, strategy names and
   entry prices. *)
C12_RestartRoundTrip ==
    [][(session'.n = session.n + 1 /\ session'.load = "ok" /\ session.load # "fail"
          /\ (lastCall # None => lastCall[1].io.posWrite = "ok"))
         => positions' = positions]_vars

\* a second OrderManager that loaded two open positions
C12_Witness ==
    /\ session.n = 2 /\ session.load = "ok"
    /\ lastCall # None /\ lastCall[1].io.posWrite = "ok"
    /\ DOMAIN positions = Symbols
    /\ positions = posFile

(* C13: once a strategy instance has been constructed over a ledger that
   holds a position on its symbol under its own name, the entry price the
   instance reports its exits against is that position's entry_price. *)
C13_EntryPriceRestored ==
    LET position == get_open_position(positions, StratSymbol)
    IN  (ticks = 0 /\ position # None) =>
           /\ position[1].strategy = Some(SMA_NAME)
                 => sma.entry_price = position[1].entry_price
           /\ position[1].strategy = Some(DB_NAME)
                 => inst[DB_NAME]._entry_price = position[1].entry_price

\* C14: no on_tick invocation of any strategy, the on_tick that
\* _reset_candles calls from inside on_tick included, places more than one
\* order
C14_AtMostOneOrder == lastTick # None => lastTick[1].orders <= 1

\* the 15-minute breakdown strategy has covered its short, reset its candles
\* and fed the last close back into on_tick, within one invocation
C14_Witness ==
    /\ lastTick # None /\ lastTick[1].strategy = FM_NAME /\ lastTick[1].orders = 1
    /\ placed # <<>> /\ placed[Len(placed)].kind = "exit"
    /\ inst[FM_NAME]._first_candle_start # None
    /\ inst[FM_NAME]._second_candle_start = None

(* C15: an exception raised inside on_tick leaves the worker that ran the
   tick free for the next one, and once the dispatcher has nothing left to
   do every well-formed tick it accepted, those submitted after a raising
   tick of the other symbol included, has been delivered to the strategy of
   its symbol. *)
C15_ExceptionIsolated ==
    /\ \A w \in Workers : wk[w].pc \in {"idle", "process"}
    /\ AllReturned =>
          \A i \in 1 .. Len(dh.accepted) :
             WellFormed(dh.accepted[i].msg) =>
                \E j \in Deliveries(dh.accepted[i].id) :
                   dh.delivered[j].strategy = Registry[dh.accepted[i].msg.symbol[1]]

\* the opening breakout strategy raised on its tick, and a tick submitted
\* later for the other symbol reached the SMA strategy
C15_Witness ==
    /\ AllReturned /\ dh.errors > 0
    /\ \E j, k \in 1 .. Len(dh.delivered) :
          /\ dh.delivered[j].strategy = OB_NAME
          /\ dh.delivered[k].strategy = SMA_NAME
          /\ dh.delivered[j].id < dh.delivered[k].id
          /\ j < k

(* C16: once the dispatcher has nothing left to do, every accepted tick
   with a registered symbol and a non-null price under "ltp" or "close" has
   caused exactly one on_tick, on the strategy registered for its symbol,
   and every other accepted tick has caused none. *)
C16_ExactlyOneDelivery ==
    AllReturned =>
       \A i \in 1 .. Len(dh.accepted) :
          LET item == dh.accepted[i]
              registered == item.msg.symbol # None /\ item.msg.symbol[1] \in DOMAIN Registry
              priced == item.msg.ltp # None \/ item.msg.close # None
          IN  IF registered /\ priced
              THEN /\ Cardinality(Deliveries(item.id)) = 1
                   /\ \A j \in Deliveries(item.id) :
                         dh.delivered[j].strategy = Registry[item.msg.symbol[1]]
              ELSE Deliveries(item.id) = {}

\* the tick a worker has just finished, if the step is the end of a
\* _process_tick
Processed(w) == wk[w].pc = "process" /\ wk'[w].pc # "process"

(* C16 as the code has it: the price of a tick is its "ltp" unless that is
   null or zero, and its "close" otherwise.  Once the dispatcher has nothing
   left to do, every accepted tick with a registered symbol and such a
   price that is not null has caused exactly one on_tick, on the strategy
   registered for its symbol, and every other accepted tick has caused
   none; and the step that processes one of those other ticks changes
   neither the ledger, the journal nor any strategy. *)
C16_DeliveryAsCoded ==
    /\ [](AllReturned =>
            \A i \in 1 .. Len(dh.accepted) :
               LET item == dh.accepted[i]
                   registered == /\ item.msg.symbol # None
                                 /\ item.msg.symbol[1] \in DOMAIN Registry
                   priced == TruthyNum(item.msg.ltp) \/ item.msg.close # None
               IN  IF registered /\ priced
                   THEN /\ Cardinality(Deliveries(item.id)) = 1
                        /\ \A j \in Deliveries(item.id) :
                              dh.delivered[j].strategy = Registry[item.msg.symbol[1]]
                   ELSE Deliveries(item.id) = {})
    /\ [][\A w \in Workers :
             (Processed(w) /\ ~WellFormed(wk[w].msg[1].msg)
                 /\ ~(wk[w].msg[1].msg.symbol # None
                        /\ wk[w].msg[1].msg.symbol[1] \in DOMAIN Registry
                        /\ wk[w].msg[1].msg.close # None))
                => UNCHANGED <<ledgerVars, callVars, stratVars, inst>>]_vars

\* ticks of every kind have gone through: one delivered, one for an
\* unregistered symbol, one with a zero ltp and one with no price at all
C16_Witness ==
    /\ AllReturned
    /\ dh.delivered # <<>>
    /\ \E i \in 1 .. Len(dh.accepted) :
          /\ dh.accepted[i].msg.ltp = Some(0)
          /\ Deliveries(dh.accepted[i].id) = {}
    /\ \E i \in 1 .. Len(dh.accepted) :
          /\ dh.accepted[i].msg.symbol = Some(Unregistered)
          /\ Deliveries(dh.accepted[i].id) = {}

(* C17: when shutdown has returned, every tick the executor accepted has
   finished its _process_tick and no work is left; and no tick whose
   on_message came after the shutdown call, which the executor refused, is
   ever delivered to a strategy. *)
C17_GracefulDrain ==
    /\ dh.shut = "done" =>
          /\ AllReturned
          /\ \A i \in 1 .. Len(dh.accepted) : dh.accepted[i].id \in dh.finished
    /\ \A j \in 1 .. Len(dh.delivered) :
          /\ dh.delivered[j].id \notin dh.refused
          /\ dh.shut # "open" => dh.delivered[j].id <= dh.cutoff

\* shutdown has returned after ticks were delivered, and a tick that came
\* after the call was turned away
C17_Witness ==
    /\ dh.shut = "done"
    /\ Len(dh.delivered) >= 2
    /\ dh.refused # {}

(* C18: during a simulation the ticks of a symbol are processed one at a
   time: no two workers are inside _process_tick for ticks of the same
   symbol at once. *)
C18_OneAtATime ==
    \A w1, w2 \in Workers :
       (wk[w1].pc # "idle" /\ wk[w2].pc # "idle"
           /\ wk[w1].msg[1].symbol = wk[w2].msg[1].symbol) => w1 = w2

(* C19: when the second of two replays of one candle table, each over a
   fresh strategy object, a fresh empty ledger and a fresh empty journal,
   has fed its last row or has been ended by the same exception, its
   journal equals the journal of the first, record by record and field by
   field. *)
C19_SameJournal ==
    (replay.run = 2 /\ (replay.fed = Len(replay.series) \/ ~ReplayRunning))
       => histFile = replay.first

\* both runs have gone through a table that made the strategy enter and
\* leave a trade
C19_Witness ==
    /\ replay.run = 2 /\ replay.fed = Len(replay.series)
    /\ Len(replay.first) >= 2
    /\ histFile = replay.first
    /\ replay.first[2].reason # "Entry"

(* C20: at every tick of a chronological sequence, the bucket open after
   the tick starts on a quarter of an hour and holds the tick; if no bucket
   was open, or if the tick comes at or after the open bucket's start plus
   15 minutes, the bucket open after the tick is the one that holds this
   tick, and in the second case the open bucket is closed with the highest
   and the lowest price of the ticks that fell in its 15 minutes; any other
   tick closes nothing and leaves the bucket's start alone. *)
C20_Bucketing ==
    [][replay'.fed = replay.fed + 1 =>
         LET tick == replay'.series[Len(replay'.series)]
             old  == inst[DB_NAME]._current_candle_start
             new  == inst'[DB_NAME]._current_candle_start
             closed == lastTick'[1].closed
         IN  /\ new # None
             /\ OnQuarter(new[1])
             /\ new[1] <= tick.ts /\ tick.ts < new[1] + 15
             /\ \E k \in 1 .. Len(replay'.series) :
                   /\ new[1] <= replay'.series[k].ts
                   /\ replay'.series[k].ts < new[1] + 15
             /\ closed # None <=> (old # None /\ tick.ts >= old[1] + 15)
             /\ closed # None =>
                   /\ closed[1].start = old[1]
                   /\ closed[1].high = SetMax(PricesIn(replay.series, old[1]))
                   /\ closed[1].low = SetMin(PricesIn(replay.series, old[1]))
             /\ (closed = None /\ old # None) => new = old
             /\ inst'[DB_NAME]._current_candle_high
                   = Some(SetMax(PricesIn(replay'.series, new[1])))
             /\ inst'[DB_NAME]._current_candle_low
                   = Some(SetMin(PricesIn(replay'.series, new[1])))]_vars

\* a bucket that took ticks at 09:15, 09:20 and 09:29 at different prices
\* has been closed by a later tick
C20_Witness ==
    /\ lastTick # None /\ lastTick[1].closed # None
    /\ lastTick[1].closed[1].start = At(0, 9, 15)
    /\ lastTick[1].closed[1].high > lastTick[1].closed[1].low
    /\ Len(replay.series) = 4
    /\ replay.series[3].ts = At(0, 9, 29)
    /\ inst[DB_NAME]._current_candle_start # Some(replay.series[4].ts)

(* C21: no on_tick of any strategy raises when its second argument is the
   tick mapping, carrying the price under "ltp" or under "close" and no
   OHLC fields, that run_backtest and the dispatcher pass. *)
C21_MappingTolerated == lastTick # None => ~lastTick[1].raised

\* the sessions that are feeding ticks to strategy instances: a live session
\* is one from the opening of its socket to its closing, a simulation and a
\* backtest are one while their thread is in the loop over the rows
LiveSessions == {k \in 1 .. Len(eng.sockets) : eng.sockets[k].state = "open"}
SimulationSessions == {t \in Threads : eng.th[t].pc \in {"check", "dispatch"}}
BacktestSessions == {t \in Threads : eng.th[t].pc = "loop"}

(* C22: whatever the order and interleaving of start_live_session,
   start_live_simulation, run_backtest and stop_session, at most one
   session, live, simulated or backtest, is feeding ticks at any time. *)
C22_OneSessionAtATime ==
    Cardinality(LiveSessions) + Cardinality(SimulationSessions)
        + Cardinality(BacktestSessions) <= 1

\* the instance made for tracker k of call c is held by a handler
Wired(c, k) ==
    \E h \in 1 .. Len(eng.ldh) :
       /\ eng.ldh[h].call = c
       /\ \E s \in DOMAIN eng.ldh[h].active : eng.ldh[h].active[s].id = <<c, k>>

(* C23: once start_live_session has started a session, every tracker with
   a known strategy name has its own instance in the dispatcher's mapping,
   also when two trackers name the same symbol. *)
C23_EveryTrackerWired ==
    \A c \in 1 .. Len(eng.hist) :
       (eng.hist[c].op = "start_live_session" /\ eng.hist[c].outcome = "session started")
          => \A k \in ValidTrackers(eng.hist[c].trackers) : Wired(c, k)

\* call c is a session start that has gone through its tracker loop
PastTrackers(c) ==
    /\ eng.hist[c].op \in {"start_live_session", "start_live_simulation"}
    /\ \/ eng.hist[c].outcome = "no valid strategies"
       \/ \E h \in 1 .. Len(eng.ldh) : eng.ldh[h].call = c

KnownName(c, k) == eng.hist[c].trackers[k].strategy_name # UNKNOWN_NAME

\* the symbol of tracker k is served by a handler of call c, through an
\* instance that call made for a tracker of that symbol
Served(c, k) ==
    LET s == eng.hist[c].trackers[k].symbol
    IN  \E h \in 1 .. Len(eng.ldh) :
           /\ eng.ldh[h].call = c
           /\ s \in DOMAIN eng.ldh[h].active
           /\ LET id == eng.ldh[h].active[s].id
              IN  id[1] = c /\ id \in eng.instances /\ KnownName(c, id[2])
                     /\ eng.hist[c].trackers[id[2]].symbol = s

(* C24: in start_live_session and start_live_simulation a tracker with an
   unknown strategy name is logged with a warning and gets no instance,
   every tracker with a known name gets an instance and its symbol is
   served by the session's handler, and the session is abandoned, with
   the "No valid strategies" line and no handler, exactly when no tracker
   has a known name. *)
C24_UnknownTrackerSkipped ==
    /\ \A id \in eng.instances :
          eng.hist[id[1]].op # "run_backtest" => KnownName(id[1], id[2])
    /\ \A c \in 1 .. Len(eng.hist) :
          PastTrackers(c) =>
            LET trackers == eng.hist[c].trackers
                known == {k \in 1 .. Len(trackers) : KnownName(c, k)}
                abandoned == eng.hist[c].outcome = "no valid strategies"
            IN  /\ \A k \in (1 .. Len(trackers)) \ known :
                      /\ [call |-> c, text |-> "Warning: Strategy not found.",
                          tracker |-> k] \in eng.log
                      /\ <<c, k>> \notin eng.instances
                /\ \A k \in known : <<c, k>> \in eng.instances /\ Served(c, k)
                /\ abandoned <=> known = {}
                /\ abandoned =>
                      /\ LogLine(c, "No valid strategies to run. Stopping.") \in eng.log
                      /\ \A h \in 1 .. Len(eng.ldh) : eng.ldh[h].call # c

\* a live session was started from an unknown and a known tracker, and the
\* instance of the known one has received a tick
C24_Witness ==
    \E c \in 1 .. Len(eng.hist) :
       /\ eng.hist[c].op = "start_live_session"
       /\ PastTrackers(c)
       /\ Len(eng.hist[c].trackers) = 2
       /\ ~KnownName(c, 1) /\ KnownName(c, 2)
       /\ <<c, 2>> \in eng.got

\* what call c has made: strategy instances, handlers, sockets
InstancesOf(c) == {id \in eng.instances : id[1] = c}
HandlersOf(c) == {h \in 1 .. Len(eng.ldh) : eng.ldh[h].call = c}
SocketsOf(c) == {k \in 1 .. Len(eng.sockets) : eng.sockets[k].call = c}

(* C25: a start_live_session, start_live_simulation or run_backtest whose
   authentication fails returns at once: it has made no strategy instance,
   no handler, no socket and no OrderManager and has dispatched no tick;
   the step in which it fails changes nothing of the engine but the log,
   and leaves is_simulation_running False. *)
C25_AuthFailureReturns ==
    /\ [](\A c \in 1 .. Len(eng.hist) :
            eng.hist[c].failed =>
               /\ eng.hist[c].returned /\ eng.hist[c].outcome = "authentication failed"
               /\ \A t \in Threads : eng.th[t].call # c
               /\ InstancesOf(c) = {} /\ HandlersOf(c) = {} /\ SocketsOf(c) = {}
               /\ eng.hist[c].order_manager = 0 /\ eng.hist[c].sent = 0
               /\ LogLine(c, "Authentication failed.") \in eng.log)
    /\ [][\A c \in 1 .. Len(eng.hist) :
            (~eng.hist[c].failed /\ eng'.hist[c].failed) =>
               /\ ~eng'._simulation_running
               /\ eng' = [eng EXCEPT !.log = eng'.log, !.hist = eng'.hist, !.th = eng'.th]
               /\ UNCHANGED <<ledgerVars, callVars>>]_vars

\* one call has failed to authenticate and a later one has gone through
\* and fed a tick to a strategy
C25_Witness ==
    \E c \in 1 .. Len(eng.hist), b \in 1 .. Len(eng.hist) :
       /\ eng.hist[c].failed /\ eng.hist[c].returned
       /\ ~eng.hist[b].failed /\ eng.hist[b].sent > 0

\* fetch_data has answered call c with no candle for any symbol
FetchedNothing(c) == eng.hist[c].fetched /\ eng.hist[c].data = <<>>

NoDataLine(c) ==
    LogLine(c, IF eng.hist[c].op = "run_backtest"
               THEN "Backtest finished: No historical data found."
               ELSE "Live simulation finished: No historical data found.")

(* C26: a run_backtest or start_live_simulation whose fetch returns no
   data logs its "no data" line, invokes no on_tick and raises nothing;
   no step of it changes the ledger, and a simulation's return leaves the
   engine not marked as running a simulation. *)
C26_NoDataReturns ==
    /\ [](\A c \in 1 .. Len(eng.hist) :
            FetchedNothing(c) =>
               /\ eng.hist[c].outcome = "no data"
               /\ NoDataLine(c) \in eng.log
               /\ eng.hist[c].sent = 0
               /\ \A t \in Threads :
                     eng.th[t].call = c =>
                        eng.th[t].pc = "finish" /\ eng.hist[c].op = "start_live_simulation"
               /\ eng.hist[c].op = "run_backtest" => InstancesOf(c) = {})
    /\ [][\A t \in Threads :
            LET c == eng.th[t].call
            IN  (c # 0 /\ eng'.th[t] # eng.th[t] /\ eng'.hist[c].data = <<>>
                       /\ eng'.hist[c].op \in {"run_backtest", "start_live_simulation"}) =>
                   /\ UNCHANGED <<ledgerVars, callVars>>
                   /\ (FetchedNothing(c) /\ eng'.hist[c].returned) =>
                         ~eng'._simulation_running]_vars

\* a simulation that fetched nothing has returned, on a ledger that holds
\* the position an earlier session opened
C26_Witness ==
    \E c \in 1 .. Len(eng.hist) :
       /\ eng.hist[c].op = "start_live_simulation"
       /\ FetchedNothing(c) /\ eng.hist[c].returned
       /\ positions # <<>>

(* C27: authenticate_and_initialize is idempotent: whatever the session
   starts and the threads they are issued from, the engine makes at most
   one OrderManager. *)
C27_OneOrderManager == eng.oms <= 1

(* C28: once stop_session has found is_simulation_running True and raised
   the cancellation flag, the simulation that was running dispatches at
   most one further tick. *)
C28_AtMostOneMoreTick ==
    \A c \in 1 .. Len(eng.hist) : eng.hist[c].stopped => eng.hist[c].after <= 1

(* C29: when start_live_simulation returns, for want of a valid tracker,
   for want of data, at the end of the data or after a cancellation,
   is_simulation_running is False. *)
C29_NotRunningAfterReturn ==
    [][\A c \in 1 .. Len(eng.hist) :
         (/\ eng.hist[c].op = "start_live_simulation"
          /\ ~eng.hist[c].returned /\ eng'.hist[c].returned
          /\ eng'.hist[c].outcome \in {"no valid strategies", "no data",
                                       "finished", "stopped"})
            => ~eng'._simulation_running]_vars

(* C30: an exit order of a strategy has the quantity of the ledger's
   position on the symbol, in absolute value, and the side opposite to it,
   and the symbol has no position after it; with sizing by quantity and
   with sizing by amount. *)
C30_ExitFlattens ==
    [][(calls' = calls + 1 /\ lastCall'[1].exit_reason # None) =>
          LET s == lastCall'[1].symbol
              current_qty == IF s \in DOMAIN positions THEN positions[s].quantity ELSE 0
          IN  /\ lastCall'[1].qty = Abs(current_qty)
              /\ lastCall'[1].side * current_qty < 0
              /\ s \notin DOMAIN positions']_vars

(* C31: in run_backtest an exception of on_tick for one candle is caught,
   and the candles that follow it in the series are still fed to the
   strategy: after a tick that raised, with rows left, the loop can go on. *)
C31_ReplaySurvivesException ==
    (/\ lastTick # None /\ lastTick[1].raised
     /\ ticks < MaxBacktestTicks
     /\ \E ts \in BacktestTimes : ts > clock)
        => ENABLED BacktestNext

(* C32: in replay, while the ledger holds a position of the
   DailyBreakoutStrategy instance, the instance's entry price is set, so
   that its exit conditions can be evaluated. *)
C32_EntryPriceWhileOpen ==
    (StratSymbol \in DOMAIN positions
        /\ positions[StratSymbol].strategy = Some(DU_NAME))
       => inst[DU_NAME]._entry_price # None

\* the signed sum of the quantities journalled for a symbol
RECURSIVE JournalSum(_, _)
JournalSum(journal, s) ==
    IF journal = <<>> THEN 0
    ELSE LET r == journal[Len(journal)]
             rest == JournalSum(SubSeq(journal, 1, Len(journal) - 1), s)
         IN  IF r.symbol # s THEN rest
             ELSE IF r.action = "BUY" THEN rest + r.quantity
             ELSE rest - r.quantity

(* C33: from an empty ledger and an empty journal, after any sequence of
   place_order calls of one caller with the storage working, the signed
   sum of the quantities journalled for a symbol, BUY counted positive
   and SELL negative, is the symbol's ledger quantity, 0 when the symbol
   has no position. *)
C33_JournalMatchesLedger ==
    \A s \in Symbols :
       JournalSum(histFile, s)
          = (IF s \in DOMAIN positions THEN positions[s].quantity ELSE 0)

\* a symbol was bought and sold and is left short, with three orders journalled
C33_Witness ==
    \E s \in Symbols :
       /\ Len(histFile) = 3
       /\ \E i, j \in 1 .. 3 : histFile[i].action = "BUY" /\ histFile[j].action = "SELL"
       /\ s \in DOMAIN positions /\ positions[s].quantity < 0

(* C34: the strategy field of a position is the strategy_name of the order
   that created the position, and no later place_order on the symbol
   changes it, whatever strategy_name it passes, for as long as the
   position exists. *)
C34_OwnerFixedAtCreation ==
    [][\A s \in Symbols :
         /\ (s \in DOMAIN positions /\ s \in DOMAIN positions')
               => positions'[s].strategy = positions[s].strategy
         /\ (s \notin DOMAIN positions /\ s \in DOMAIN positions')
               => /\ lastCall'[1].symbol = s
                  /\ positions'[s].strategy = lastCall'[1].strategy_name]_vars

\* the latest order changed the quantity of a position that another
\* strategy's order had created
C34_Witness ==
    /\ lastCall # None
    /\ calls >= 2
    /\ lastCall[1].symbol \in DOMAIN positions
    /\ positions[lastCall[1].symbol].strategy = Some(SMA_NAME)
    /\ lastCall[1].strategy_name = Some(OB_NAME)
    /\ netQty[lastCall[1].symbol] = positions[lastCall[1].symbol].quantity
    /\ Len(SelectSeq(histFile, LAMBDA r : r.symbol = lastCall[1].symbol)) >= 2

(* C35: every place_order call of a strategy has a quantity above 0, so
   that no trade record has a quantity of 0 or less: a sizing that yields
   0 places no entry, and an exit is placed only with a quantity. *)
C35_PositiveQuantity ==
    /\ [](\A i \in 1 .. Len(histFile) : histFile[i].quantity > 0)
    /\ [][calls' > calls => lastCall'[1].qty > 0]_vars

\* a sizing that yields no quantity at the price of a breakout kept
\* OpeningBreakoutStrategy from entering, on a ledger that has seen an order
C35_Witness ==
    /\ sized # None /\ sized[1].quantity = 0
    /\ lastTick # None /\ lastTick[1].strategy = OB_NAME /\ lastTick[1].orders = 0
    /\ ob.position = None /\ ~ob.trade_taken_today
    /\ ob.fifteen_min_close_price # None
    /\ sized[1].price * 100 > ob.fifteen_min_close_price[1].value * (100 + threshold_percent)
    /\ calls >= 1

\* the sum of the last n recorded prices
RECURSIVE WindowSum(_, _)
WindowSum(prices, n) ==
    IF n = 0 THEN 0
    ELSE prices[Len(prices)] + WindowSum(SubSeq(prices, 1, Len(prices) - 1), n - 1)

(* C36: SMACrossoverStrategy has a pair of averages exactly when it has
   recorded long_window prices or more, the averages are the arithmetic
   means of the last short_window and the last long_window prices, and it
   places an order only on a tick that found long_window prices recorded
   and a pair of averages from the tick before. *)
C36_SmaWarmUp ==
    /\ [](/\ (sma.short_sma # None <=> Len(sma.prices) >= long_window)
          /\ (sma.long_sma # None <=> sma.short_sma # None)
          /\ sma.short_sma # None =>
                /\ sma.short_sma[1] = WindowSum(sma.prices, short_window) * long_window
                /\ sma.long_sma[1] = WindowSum(sma.prices, long_window) * short_window)
    /\ [][(calls' > calls /\ lastTick'[1].strategy = SMA_NAME) =>
             /\ Len(sma.prices) >= long_window
             /\ sma.short_sma # None /\ sma.long_sma # None
             /\ Len(sma'.prices) = Len(sma.prices) + 1]_vars

\* the strategy has placed an order on the first tick on which it could
C36_Witness ==
    /\ lastTick # None /\ lastTick[1].strategy = SMA_NAME /\ lastTick[1].orders = 1
    /\ Len(sma.prices) = long_window + 1
    /\ sma.prices[Len(sma.prices)] # sma.prices[1]


----------------------------------------------------------------------------
\* the bar at position i tops each of its swing_length neighbours on both sides
IsPivotHigh(bars, i) ==
    \A j \in ((i - swing_length) .. (i + swing_length)) \ {i} : bars[i].high > bars[j].high

\* the bar at position i undercuts each of its swing_length neighbours on both sides
IsPivotLow(bars, i) ==
    \A j \in ((i - swing_length) .. (i + swing_length)) \ {i} : bars[i].low < bars[j].low

\* the positions that have swing_length bars on either side
Centres(bars) == (swing_length + 1) .. (Len(bars) - swing_length)

\* C37: _get_pivot_high returns None with fewer than 2*swing_length+1 bars
\* stored; otherwise what it returns is a stored bar whose high is strictly
\* above the highs of the swing_length bars before it and after it, and it
\* returns None only when no stored bar is one; _get_pivot_low likewise
\* with lows strictly below.
C37_PivotIsStrictExtreme ==
    LET bars == inst[NF_NAME].bars
        hi == nf_get_pivot_high(bars, swing_length + 1)
        lo == nf_get_pivot_low(bars, swing_length + 1)
    IN  /\ Len(bars) < 2 * swing_length + 1 => hi = None /\ lo = None
        /\ hi # None => /\ hi[1].index \in Centres(bars)
                         /\ IsPivotHigh(bars, hi[1].index)
                         /\ hi[1].value = bars[hi[1].index].high
                         /\ hi[1].low = bars[hi[1].index].low
        /\ lo # None => /\ lo[1].index \in Centres(bars)
                         /\ IsPivotLow(bars, lo[1].index)
                         /\ lo[1].value = bars[lo[1].index].low
                         /\ lo[1].high = bars[lo[1].index].high
        /\ hi = None => \A i \in Centres(bars) : ~IsPivotHigh(bars, i)
        /\ lo = None => \A i \in Centres(bars) : ~IsPivotLow(bars, i)

\* enough bars, a pivot high found past a bar that is level with its
\* neighbour, and no pivot low among the same bars
C37_Witness ==
    LET bars == inst[NF_NAME].bars
        hi == nf_get_pivot_high(bars, swing_length + 1)
    IN  /\ Len(bars) >= 2 * swing_length + 2
        /\ hi # None /\ hi[1].index > swing_length + 1
        /\ bars[swing_length + 1].high = bars[swing_length].high
        /\ nf_get_pivot_low(bars, swing_length + 1) = None

\* C39: on every entry of NiftySwingBreakoutTrendStrategy the stop and the
\* target lie on opposite sides of the entry price, the target twice as far
\* as the stop: long sl < entry < tp and tp - entry = 2*(entry - sl), short
\* tp < entry < sl and entry - tp = 2*(sl - entry).
C39_RiskRewardOneToTwo ==
    [][(calls' = calls + 1 /\ lastCall'[1].strategy_name = Some(NF_NAME)
            /\ lastCall'[1].exit_reason = None)
        => LET s == inst'[NF_NAME]
               entry == s.entry_price[1]
               sl == s.sl[1]
               tp == s.tp[1]
           IN  /\ s.entry_price # None /\ s.sl # None /\ s.tp # None
               /\ entry = lastCall'[1].price[1]
               /\ IF lastCall'[1].side = 1
                  THEN sl < entry /\ entry < tp /\ tp - entry = 2 * (entry - sl)
                  ELSE tp < entry /\ entry < sl /\ entry - tp = 2 * (sl - entry)]_vars

\* a long position entered above a pivot bar that had a range
C39_Witness ==
    /\ lastCall # None /\ lastCall[1].strategy_name = Some(NF_NAME)
    /\ lastCall[1].exit_reason = None /\ lastCall[1].side = 1
    /\ get_position(positions, StratSymbol) > 0
    /\ inst[NF_NAME].sl # None /\ inst[NF_NAME].tp # None
    /\ inst[NF_NAME].tp[1] - inst[NF_NAME].entry_price[1] > 40


\* the positions in a series of the ticks whose time fell in [start, start + 15 min)
TicksIn(series, start) ==
    {i \in 1 .. Len(series) : series[i].ts >= start /\ series[i].ts < start + CandleMinutes}

(* C38: when DailyBreakdownStrategy closes a 15-minute bucket, the open and
   the close it evaluates are the bucket's own: the open is the price of
   the first tick that fell in the bucket and the close the price of the
   last tick that fell in it, not the price of the tick that opens the next
   bucket.  The values evaluated are seen where the strategy keeps them,
   in the first qualifying candle. *)
C38_ClosedCandleOwnValues ==
    [][(/\ replay'.fed = replay.fed + 1
        /\ inst[DB_NAME]._first_candle_start = None
        /\ inst'[DB_NAME]._first_candle_start # None)
       => LET inside == TicksIn(replay.series, inst'[DB_NAME]._first_candle_start[1])
              first == SetMin(inside)
              last  == SetMax(inside)
          IN  /\ inside # {}
              /\ inst'[DB_NAME]._first_candle_open = replay.series[first].row.close
              /\ inst'[DB_NAME]._first_candle_close = replay.series[last].row.close]_vars


\* what "a few seconds" is taken to allow, generously
FewSeconds == 10 * MilliSeconds

(* C40: in start_live_simulation the delay before each tick after the first
   is the gap between the two timestamps divided by the speed; when the gap
   is more than 5 minutes the delay is at most a few seconds for every
   positive speed; for a speed of 0 or less the delay is 0. *)
C40_DelayPacedAndCapped ==
    LET th == eng.th["Thread-1"]
    IN  th.sim_delay # None =>
          /\ th.speed <= 0 => th.sim_delay[1] = 0
          /\ (th.speed > 0 /\ th.gap[1] <= LargeGap)
                => th.sim_delay[1] * th.speed = th.gap[1] * MilliSeconds * SpeedScale
          /\ (th.speed > 0 /\ th.gap[1] > LargeGap) => th.sim_delay[1] <= FewSeconds

=========================================================================
